---- MODULE Spec2Model ----
(***************************************************************************)
(* A model of notion-translator (src/main.py): the command-line pipeline   *)
(* main, and the functions it is built from: translate_text,               *)
(* remove_unnecessary_properties, build_translated_blocks and              *)
(* create_new_page_for_translation.                                        *)
(*                                                                         *)
(* Text (language codes, URLs, titles, run texts) is a sequence of         *)
(* one-character strings, so that upper(), split() and "+" are computed.   *)
(* A character outside ASCII is written by its code point, "U+00DF".       *)
(* A JSON object is a function from its keys to its values.                *)
(* The --debug flag only adds prints and is left out, as are the messages  *)
(* written to stdout and stderr.                                           *)
(***************************************************************************)
EXTENDS Integers, Sequences, FiniteSets, TLC

VARIABLES
    pc,                 \* position of the running code
    ret,                \* where the running function returns to
    from_lang,          \* --from
    to_lang,            \* --to
    url,                \* --url
    exit_status,        \* -1 while running, else the process's exit status
    calls,              \* every external call issued so far, in order
    original_page,      \* main's original_page
    page0,              \* the page as the server returned it
    block_id,           \* build_translated_blocks: block_id
    nested_depth,       \* build_translated_blocks: nested_depth
    cursor,             \* build_translated_blocks: cursor
    has_more,           \* build_translated_blocks: has_more
    translated_blocks,  \* build_translated_blocks: translated_blocks
    fetched,            \* the objects of blocks["results"], as the loop left them
    variant,            \* which content the source page's children have
    new_page,           \* main's new_page (the page-create response)
    begin_index,        \* main's upload loop
    end_index,          \* main's upload loop
    rich_text_array,    \* translate_text: the array, mutated in place
    run_id,             \* which dict object each place of the array holds
    text_id,            \* which dict object its "text" is, 0 when it has none
    rich_text_array0,   \* translate_text: the array as passed
    each_index,         \* translate_text: how many runs the loop has handled
    obj,                \* remove_unnecessary_properties: the object, mutated in place
    obj0                \* remove_unnecessary_properties: the object as passed

mainVars == <<from_lang, to_lang, url, exit_status, original_page, page0,
              new_page, begin_index, end_index>>
buildVars == <<block_id, nested_depth, cursor, has_more, translated_blocks,
               fetched, variant>>
unitVars == <<rich_text_array, run_id, text_id, rich_text_array0, each_index,
              obj, obj0>>
vars == <<pc, ret, calls, mainVars, buildVars, unitVars>>

(***************************************************************************)
(* Bounds of the model.                                                    *)
(***************************************************************************)
MaxPages == 3       \* list responses the server takes to serve the children
MaxPageLen == 10    \* blocks in one list response
MaxDepth == 3       \* nested_depth of a direct call of build_translated_blocks
MaxRuns == 3        \* runs in a rich-text array
MaxUrlLen == 4      \* characters of a generated URL

(***************************************************************************)
(* Text.                                                                   *)
(***************************************************************************)
None == "None"

LowerLetters ==
    <<"a", "b", "c", "d", "e", "f", "g", "h", "i", "j", "k", "l", "m",
      "n", "o", "p", "q", "r", "s", "t", "u", "v", "w", "x", "y", "z">>
UpperLetters ==
    <<"A", "B", "C", "D", "E", "F", "G", "H", "I", "J", "K", "L", "M",
      "N", "O", "P", "Q", "R", "S", "T", "U", "V", "W", "X", "Y", "Z">>

\* Every character outside ASCII that str.upper() changes, named by its code
\* point, with what str.upper() makes of it (one to three characters): the
\* sharp s U+00DF gives "SS", the ligature U+FB01 "FI", the long s U+017F
\* "S", e acute U+00E9 capital e acute U+00C9.
UpperPairs ==
    <<
      <<"U+00B5", <<"U+039C">> >>, <<"U+00DF", <<"S", "S">> >>,
      <<"U+00E0", <<"U+00C0">> >>, <<"U+00E1", <<"U+00C1">> >>,
      <<"U+00E2", <<"U+00C2">> >>, <<"U+00E3", <<"U+00C3">> >>,
      <<"U+00E4", <<"U+00C4">> >>, <<"U+00E5", <<"U+00C5">> >>,
      <<"U+00E6", <<"U+00C6">> >>, <<"U+00E7", <<"U+00C7">> >>,
      <<"U+00E8", <<"U+00C8">> >>, <<"U+00E9", <<"U+00C9">> >>,
      <<"U+00EA", <<"U+00CA">> >>, <<"U+00EB", <<"U+00CB">> >>,
      <<"U+00EC", <<"U+00CC">> >>, <<"U+00ED", <<"U+00CD">> >>,
      <<"U+00EE", <<"U+00CE">> >>, <<"U+00EF", <<"U+00CF">> >>,
      <<"U+00F0", <<"U+00D0">> >>, <<"U+00F1", <<"U+00D1">> >>,
      <<"U+00F2", <<"U+00D2">> >>, <<"U+00F3", <<"U+00D3">> >>,
      <<"U+00F4", <<"U+00D4">> >>, <<"U+00F5", <<"U+00D5">> >>,
      <<"U+00F6", <<"U+00D6">> >>, <<"U+00F8", <<"U+00D8">> >>,
      <<"U+00F9", <<"U+00D9">> >>, <<"U+00FA", <<"U+00DA">> >>,
      <<"U+00FB", <<"U+00DB">> >>, <<"U+00FC", <<"U+00DC">> >>,
      <<"U+00FD", <<"U+00DD">> >>, <<"U+00FE", <<"U+00DE">> >>,
      <<"U+00FF", <<"U+0178">> >>, <<"U+0101", <<"U+0100">> >>,
      <<"U+0103", <<"U+0102">> >>, <<"U+0105", <<"U+0104">> >>,
      <<"U+0107", <<"U+0106">> >>, <<"U+0109", <<"U+0108">> >>,
      <<"U+010B", <<"U+010A">> >>, <<"U+010D", <<"U+010C">> >>,
      <<"U+010F", <<"U+010E">> >>, <<"U+0111", <<"U+0110">> >>,
      <<"U+0113", <<"U+0112">> >>, <<"U+0115", <<"U+0114">> >>,
      <<"U+0117", <<"U+0116">> >>, <<"U+0119", <<"U+0118">> >>,
      <<"U+011B", <<"U+011A">> >>, <<"U+011D", <<"U+011C">> >>,
      <<"U+011F", <<"U+011E">> >>, <<"U+0121", <<"U+0120">> >>,
      <<"U+0123", <<"U+0122">> >>, <<"U+0125", <<"U+0124">> >>,
      <<"U+0127", <<"U+0126">> >>, <<"U+0129", <<"U+0128">> >>,
      <<"U+012B", <<"U+012A">> >>, <<"U+012D", <<"U+012C">> >>,
      <<"U+012F", <<"U+012E">> >>, <<"U+0131", <<"I">> >>,
      <<"U+0133", <<"U+0132">> >>, <<"U+0135", <<"U+0134">> >>,
      <<"U+0137", <<"U+0136">> >>, <<"U+013A", <<"U+0139">> >>,
      <<"U+013C", <<"U+013B">> >>, <<"U+013E", <<"U+013D">> >>,
      <<"U+0140", <<"U+013F">> >>, <<"U+0142", <<"U+0141">> >>,
      <<"U+0144", <<"U+0143">> >>, <<"U+0146", <<"U+0145">> >>,
      <<"U+0148", <<"U+0147">> >>, <<"U+0149", <<"U+02BC", "N">> >>,
      <<"U+014B", <<"U+014A">> >>, <<"U+014D", <<"U+014C">> >>,
      <<"U+014F", <<"U+014E">> >>, <<"U+0151", <<"U+0150">> >>,
      <<"U+0153", <<"U+0152">> >>, <<"U+0155", <<"U+0154">> >>,
      <<"U+0157", <<"U+0156">> >>, <<"U+0159", <<"U+0158">> >>,
      <<"U+015B", <<"U+015A">> >>, <<"U+015D", <<"U+015C">> >>,
      <<"U+015F", <<"U+015E">> >>, <<"U+0161", <<"U+0160">> >>,
      <<"U+0163", <<"U+0162">> >>, <<"U+0165", <<"U+0164">> >>,
      <<"U+0167", <<"U+0166">> >>, <<"U+0169", <<"U+0168">> >>,
      <<"U+016B", <<"U+016A">> >>, <<"U+016D", <<"U+016C">> >>,
      <<"U+016F", <<"U+016E">> >>, <<"U+0171", <<"U+0170">> >>,
      <<"U+0173", <<"U+0172">> >>, <<"U+0175", <<"U+0174">> >>,
      <<"U+0177", <<"U+0176">> >>, <<"U+017A", <<"U+0179">> >>,
      <<"U+017C", <<"U+017B">> >>, <<"U+017E", <<"U+017D">> >>,
      <<"U+017F", <<"S">> >>, <<"U+0180", <<"U+0243">> >>,
      <<"U+0183", <<"U+0182">> >>, <<"U+0185", <<"U+0184">> >>,
      <<"U+0188", <<"U+0187">> >>, <<"U+018C", <<"U+018B">> >>,
      <<"U+0192", <<"U+0191">> >>, <<"U+0195", <<"U+01F6">> >>,
      <<"U+0199", <<"U+0198">> >>, <<"U+019A", <<"U+023D">> >>,
      <<"U+019E", <<"U+0220">> >>, <<"U+01A1", <<"U+01A0">> >>,
      <<"U+01A3", <<"U+01A2">> >>, <<"U+01A5", <<"U+01A4">> >>,
      <<"U+01A8", <<"U+01A7">> >>, <<"U+01AD", <<"U+01AC">> >>,
      <<"U+01B0", <<"U+01AF">> >>, <<"U+01B4", <<"U+01B3">> >>,
      <<"U+01B6", <<"U+01B5">> >>, <<"U+01B9", <<"U+01B8">> >>,
      <<"U+01BD", <<"U+01BC">> >>, <<"U+01BF", <<"U+01F7">> >>,
      <<"U+01C5", <<"U+01C4">> >>, <<"U+01C6", <<"U+01C4">> >>,
      <<"U+01C8", <<"U+01C7">> >>, <<"U+01C9", <<"U+01C7">> >>,
      <<"U+01CB", <<"U+01CA">> >>, <<"U+01CC", <<"U+01CA">> >>,
      <<"U+01CE", <<"U+01CD">> >>, <<"U+01D0", <<"U+01CF">> >>,
      <<"U+01D2", <<"U+01D1">> >>, <<"U+01D4", <<"U+01D3">> >>,
      <<"U+01D6", <<"U+01D5">> >>, <<"U+01D8", <<"U+01D7">> >>,
      <<"U+01DA", <<"U+01D9">> >>, <<"U+01DC", <<"U+01DB">> >>,
      <<"U+01DD", <<"U+018E">> >>, <<"U+01DF", <<"U+01DE">> >>,
      <<"U+01E1", <<"U+01E0">> >>, <<"U+01E3", <<"U+01E2">> >>,
      <<"U+01E5", <<"U+01E4">> >>, <<"U+01E7", <<"U+01E6">> >>,
      <<"U+01E9", <<"U+01E8">> >>, <<"U+01EB", <<"U+01EA">> >>,
      <<"U+01ED", <<"U+01EC">> >>, <<"U+01EF", <<"U+01EE">> >>,
      <<"U+01F0", <<"J", "U+030C">> >>, <<"U+01F2", <<"U+01F1">> >>,
      <<"U+01F3", <<"U+01F1">> >>, <<"U+01F5", <<"U+01F4">> >>,
      <<"U+01F9", <<"U+01F8">> >>, <<"U+01FB", <<"U+01FA">> >>,
      <<"U+01FD", <<"U+01FC">> >>, <<"U+01FF", <<"U+01FE">> >>,
      <<"U+0201", <<"U+0200">> >>, <<"U+0203", <<"U+0202">> >>,
      <<"U+0205", <<"U+0204">> >>, <<"U+0207", <<"U+0206">> >>,
      <<"U+0209", <<"U+0208">> >>, <<"U+020B", <<"U+020A">> >>,
      <<"U+020D", <<"U+020C">> >>, <<"U+020F", <<"U+020E">> >>,
      <<"U+0211", <<"U+0210">> >>, <<"U+0213", <<"U+0212">> >>,
      <<"U+0215", <<"U+0214">> >>, <<"U+0217", <<"U+0216">> >>,
      <<"U+0219", <<"U+0218">> >>, <<"U+021B", <<"U+021A">> >>,
      <<"U+021D", <<"U+021C">> >>, <<"U+021F", <<"U+021E">> >>,
      <<"U+0223", <<"U+0222">> >>, <<"U+0225", <<"U+0224">> >>,
      <<"U+0227", <<"U+0226">> >>, <<"U+0229", <<"U+0228">> >>,
      <<"U+022B", <<"U+022A">> >>, <<"U+022D", <<"U+022C">> >>,
      <<"U+022F", <<"U+022E">> >>, <<"U+0231", <<"U+0230">> >>,
      <<"U+0233", <<"U+0232">> >>, <<"U+023C", <<"U+023B">> >>,
      <<"U+023F", <<"U+2C7E">> >>, <<"U+0240", <<"U+2C7F">> >>,
      <<"U+0242", <<"U+0241">> >>, <<"U+0247", <<"U+0246">> >>,
      <<"U+0249", <<"U+0248">> >>, <<"U+024B", <<"U+024A">> >>,
      <<"U+024D", <<"U+024C">> >>, <<"U+024F", <<"U+024E">> >>,
      <<"U+0250", <<"U+2C6F">> >>, <<"U+0251", <<"U+2C6D">> >>,
      <<"U+0252", <<"U+2C70">> >>, <<"U+0253", <<"U+0181">> >>,
      <<"U+0254", <<"U+0186">> >>, <<"U+0256", <<"U+0189">> >>,
      <<"U+0257", <<"U+018A">> >>, <<"U+0259", <<"U+018F">> >>,
      <<"U+025B", <<"U+0190">> >>, <<"U+025C", <<"U+A7AB">> >>,
      <<"U+0260", <<"U+0193">> >>, <<"U+0261", <<"U+A7AC">> >>,
      <<"U+0263", <<"U+0194">> >>, <<"U+0265", <<"U+A78D">> >>,
      <<"U+0266", <<"U+A7AA">> >>, <<"U+0268", <<"U+0197">> >>,
      <<"U+0269", <<"U+0196">> >>, <<"U+026A", <<"U+A7AE">> >>,
      <<"U+026B", <<"U+2C62">> >>, <<"U+026C", <<"U+A7AD">> >>,
      <<"U+026F", <<"U+019C">> >>, <<"U+0271", <<"U+2C6E">> >>,
      <<"U+0272", <<"U+019D">> >>, <<"U+0275", <<"U+019F">> >>,
      <<"U+027D", <<"U+2C64">> >>, <<"U+0280", <<"U+01A6">> >>,
      <<"U+0282", <<"U+A7C5">> >>, <<"U+0283", <<"U+01A9">> >>,
      <<"U+0287", <<"U+A7B1">> >>, <<"U+0288", <<"U+01AE">> >>,
      <<"U+0289", <<"U+0244">> >>, <<"U+028A", <<"U+01B1">> >>,
      <<"U+028B", <<"U+01B2">> >>, <<"U+028C", <<"U+0245">> >>,
      <<"U+0292", <<"U+01B7">> >>, <<"U+029D", <<"U+A7B2">> >>,
      <<"U+029E", <<"U+A7B0">> >>, <<"U+0345", <<"U+0399">> >>,
      <<"U+0371", <<"U+0370">> >>, <<"U+0373", <<"U+0372">> >>,
      <<"U+0377", <<"U+0376">> >>, <<"U+037B", <<"U+03FD">> >>,
      <<"U+037C", <<"U+03FE">> >>, <<"U+037D", <<"U+03FF">> >>,
      <<"U+0390", <<"U+0399", "U+0308", "U+0301">> >>,
      <<"U+03AC", <<"U+0386">> >>, <<"U+03AD", <<"U+0388">> >>,
      <<"U+03AE", <<"U+0389">> >>, <<"U+03AF", <<"U+038A">> >>,
      <<"U+03B0", <<"U+03A5", "U+0308", "U+0301">> >>,
      <<"U+03B1", <<"U+0391">> >>, <<"U+03B2", <<"U+0392">> >>,
      <<"U+03B3", <<"U+0393">> >>, <<"U+03B4", <<"U+0394">> >>,
      <<"U+03B5", <<"U+0395">> >>, <<"U+03B6", <<"U+0396">> >>,
      <<"U+03B7", <<"U+0397">> >>, <<"U+03B8", <<"U+0398">> >>,
      <<"U+03B9", <<"U+0399">> >>, <<"U+03BA", <<"U+039A">> >>,
      <<"U+03BB", <<"U+039B">> >>, <<"U+03BC", <<"U+039C">> >>,
      <<"U+03BD", <<"U+039D">> >>, <<"U+03BE", <<"U+039E">> >>,
      <<"U+03BF", <<"U+039F">> >>, <<"U+03C0", <<"U+03A0">> >>,
      <<"U+03C1", <<"U+03A1">> >>, <<"U+03C2", <<"U+03A3">> >>,
      <<"U+03C3", <<"U+03A3">> >>, <<"U+03C4", <<"U+03A4">> >>,
      <<"U+03C5", <<"U+03A5">> >>, <<"U+03C6", <<"U+03A6">> >>,
      <<"U+03C7", <<"U+03A7">> >>, <<"U+03C8", <<"U+03A8">> >>,
      <<"U+03C9", <<"U+03A9">> >>, <<"U+03CA", <<"U+03AA">> >>,
      <<"U+03CB", <<"U+03AB">> >>, <<"U+03CC", <<"U+038C">> >>,
      <<"U+03CD", <<"U+038E">> >>, <<"U+03CE", <<"U+038F">> >>,
      <<"U+03D0", <<"U+0392">> >>, <<"U+03D1", <<"U+0398">> >>,
      <<"U+03D5", <<"U+03A6">> >>, <<"U+03D6", <<"U+03A0">> >>,
      <<"U+03D7", <<"U+03CF">> >>, <<"U+03D9", <<"U+03D8">> >>,
      <<"U+03DB", <<"U+03DA">> >>, <<"U+03DD", <<"U+03DC">> >>,
      <<"U+03DF", <<"U+03DE">> >>, <<"U+03E1", <<"U+03E0">> >>,
      <<"U+03E3", <<"U+03E2">> >>, <<"U+03E5", <<"U+03E4">> >>,
      <<"U+03E7", <<"U+03E6">> >>, <<"U+03E9", <<"U+03E8">> >>,
      <<"U+03EB", <<"U+03EA">> >>, <<"U+03ED", <<"U+03EC">> >>,
      <<"U+03EF", <<"U+03EE">> >>, <<"U+03F0", <<"U+039A">> >>,
      <<"U+03F1", <<"U+03A1">> >>, <<"U+03F2", <<"U+03F9">> >>,
      <<"U+03F3", <<"U+037F">> >>, <<"U+03F5", <<"U+0395">> >>,
      <<"U+03F8", <<"U+03F7">> >>, <<"U+03FB", <<"U+03FA">> >>,
      <<"U+0430", <<"U+0410">> >>, <<"U+0431", <<"U+0411">> >>,
      <<"U+0432", <<"U+0412">> >>, <<"U+0433", <<"U+0413">> >>,
      <<"U+0434", <<"U+0414">> >>, <<"U+0435", <<"U+0415">> >>,
      <<"U+0436", <<"U+0416">> >>, <<"U+0437", <<"U+0417">> >>,
      <<"U+0438", <<"U+0418">> >>, <<"U+0439", <<"U+0419">> >>,
      <<"U+043A", <<"U+041A">> >>, <<"U+043B", <<"U+041B">> >>,
      <<"U+043C", <<"U+041C">> >>, <<"U+043D", <<"U+041D">> >>,
      <<"U+043E", <<"U+041E">> >>, <<"U+043F", <<"U+041F">> >>,
      <<"U+0440", <<"U+0420">> >>, <<"U+0441", <<"U+0421">> >>,
      <<"U+0442", <<"U+0422">> >>, <<"U+0443", <<"U+0423">> >>,
      <<"U+0444", <<"U+0424">> >>, <<"U+0445", <<"U+0425">> >>,
      <<"U+0446", <<"U+0426">> >>, <<"U+0447", <<"U+0427">> >>,
      <<"U+0448", <<"U+0428">> >>, <<"U+0449", <<"U+0429">> >>,
      <<"U+044A", <<"U+042A">> >>, <<"U+044B", <<"U+042B">> >>,
      <<"U+044C", <<"U+042C">> >>, <<"U+044D", <<"U+042D">> >>,
      <<"U+044E", <<"U+042E">> >>, <<"U+044F", <<"U+042F">> >>,
      <<"U+0450", <<"U+0400">> >>, <<"U+0451", <<"U+0401">> >>,
      <<"U+0452", <<"U+0402">> >>, <<"U+0453", <<"U+0403">> >>,
      <<"U+0454", <<"U+0404">> >>, <<"U+0455", <<"U+0405">> >>,
      <<"U+0456", <<"U+0406">> >>, <<"U+0457", <<"U+0407">> >>,
      <<"U+0458", <<"U+0408">> >>, <<"U+0459", <<"U+0409">> >>,
      <<"U+045A", <<"U+040A">> >>, <<"U+045B", <<"U+040B">> >>,
      <<"U+045C", <<"U+040C">> >>, <<"U+045D", <<"U+040D">> >>,
      <<"U+045E", <<"U+040E">> >>, <<"U+045F", <<"U+040F">> >>,
      <<"U+0461", <<"U+0460">> >>, <<"U+0463", <<"U+0462">> >>,
      <<"U+0465", <<"U+0464">> >>, <<"U+0467", <<"U+0466">> >>,
      <<"U+0469", <<"U+0468">> >>, <<"U+046B", <<"U+046A">> >>,
      <<"U+046D", <<"U+046C">> >>, <<"U+046F", <<"U+046E">> >>,
      <<"U+0471", <<"U+0470">> >>, <<"U+0473", <<"U+0472">> >>,
      <<"U+0475", <<"U+0474">> >>, <<"U+0477", <<"U+0476">> >>,
      <<"U+0479", <<"U+0478">> >>, <<"U+047B", <<"U+047A">> >>,
      <<"U+047D", <<"U+047C">> >>, <<"U+047F", <<"U+047E">> >>,
      <<"U+0481", <<"U+0480">> >>, <<"U+048B", <<"U+048A">> >>,
      <<"U+048D", <<"U+048C">> >>, <<"U+048F", <<"U+048E">> >>,
      <<"U+0491", <<"U+0490">> >>, <<"U+0493", <<"U+0492">> >>,
      <<"U+0495", <<"U+0494">> >>, <<"U+0497", <<"U+0496">> >>,
      <<"U+0499", <<"U+0498">> >>, <<"U+049B", <<"U+049A">> >>,
      <<"U+049D", <<"U+049C">> >>, <<"U+049F", <<"U+049E">> >>,
      <<"U+04A1", <<"U+04A0">> >>, <<"U+04A3", <<"U+04A2">> >>,
      <<"U+04A5", <<"U+04A4">> >>, <<"U+04A7", <<"U+04A6">> >>,
      <<"U+04A9", <<"U+04A8">> >>, <<"U+04AB", <<"U+04AA">> >>,
      <<"U+04AD", <<"U+04AC">> >>, <<"U+04AF", <<"U+04AE">> >>,
      <<"U+04B1", <<"U+04B0">> >>, <<"U+04B3", <<"U+04B2">> >>,
      <<"U+04B5", <<"U+04B4">> >>, <<"U+04B7", <<"U+04B6">> >>,
      <<"U+04B9", <<"U+04B8">> >>, <<"U+04BB", <<"U+04BA">> >>,
      <<"U+04BD", <<"U+04BC">> >>, <<"U+04BF", <<"U+04BE">> >>,
      <<"U+04C2", <<"U+04C1">> >>, <<"U+04C4", <<"U+04C3">> >>,
      <<"U+04C6", <<"U+04C5">> >>, <<"U+04C8", <<"U+04C7">> >>,
      <<"U+04CA", <<"U+04C9">> >>, <<"U+04CC", <<"U+04CB">> >>,
      <<"U+04CE", <<"U+04CD">> >>, <<"U+04CF", <<"U+04C0">> >>,
      <<"U+04D1", <<"U+04D0">> >>, <<"U+04D3", <<"U+04D2">> >>,
      <<"U+04D5", <<"U+04D4">> >>, <<"U+04D7", <<"U+04D6">> >>,
      <<"U+04D9", <<"U+04D8">> >>, <<"U+04DB", <<"U+04DA">> >>,
      <<"U+04DD", <<"U+04DC">> >>, <<"U+04DF", <<"U+04DE">> >>,
      <<"U+04E1", <<"U+04E0">> >>, <<"U+04E3", <<"U+04E2">> >>,
      <<"U+04E5", <<"U+04E4">> >>, <<"U+04E7", <<"U+04E6">> >>,
      <<"U+04E9", <<"U+04E8">> >>, <<"U+04EB", <<"U+04EA">> >>,
      <<"U+04ED", <<"U+04EC">> >>, <<"U+04EF", <<"U+04EE">> >>,
      <<"U+04F1", <<"U+04F0">> >>, <<"U+04F3", <<"U+04F2">> >>,
      <<"U+04F5", <<"U+04F4">> >>, <<"U+04F7", <<"U+04F6">> >>,
      <<"U+04F9", <<"U+04F8">> >>, <<"U+04FB", <<"U+04FA">> >>,
      <<"U+04FD", <<"U+04FC">> >>, <<"U+04FF", <<"U+04FE">> >>,
      <<"U+0501", <<"U+0500">> >>, <<"U+0503", <<"U+0502">> >>,
      <<"U+0505", <<"U+0504">> >>, <<"U+0507", <<"U+0506">> >>,
      <<"U+0509", <<"U+0508">> >>, <<"U+050B", <<"U+050A">> >>,
      <<"U+050D", <<"U+050C">> >>, <<"U+050F", <<"U+050E">> >>,
      <<"U+0511", <<"U+0510">> >>, <<"U+0513", <<"U+0512">> >>,
      <<"U+0515", <<"U+0514">> >>, <<"U+0517", <<"U+0516">> >>,
      <<"U+0519", <<"U+0518">> >>, <<"U+051B", <<"U+051A">> >>,
      <<"U+051D", <<"U+051C">> >>, <<"U+051F", <<"U+051E">> >>,
      <<"U+0521", <<"U+0520">> >>, <<"U+0523", <<"U+0522">> >>,
      <<"U+0525", <<"U+0524">> >>, <<"U+0527", <<"U+0526">> >>,
      <<"U+0529", <<"U+0528">> >>, <<"U+052B", <<"U+052A">> >>,
      <<"U+052D", <<"U+052C">> >>, <<"U+052F", <<"U+052E">> >>,
      <<"U+0561", <<"U+0531">> >>, <<"U+0562", <<"U+0532">> >>,
      <<"U+0563", <<"U+0533">> >>, <<"U+0564", <<"U+0534">> >>,
      <<"U+0565", <<"U+0535">> >>, <<"U+0566", <<"U+0536">> >>,
      <<"U+0567", <<"U+0537">> >>, <<"U+0568", <<"U+0538">> >>,
      <<"U+0569", <<"U+0539">> >>, <<"U+056A", <<"U+053A">> >>,
      <<"U+056B", <<"U+053B">> >>, <<"U+056C", <<"U+053C">> >>,
      <<"U+056D", <<"U+053D">> >>, <<"U+056E", <<"U+053E">> >>,
      <<"U+056F", <<"U+053F">> >>, <<"U+0570", <<"U+0540">> >>,
      <<"U+0571", <<"U+0541">> >>, <<"U+0572", <<"U+0542">> >>,
      <<"U+0573", <<"U+0543">> >>, <<"U+0574", <<"U+0544">> >>,
      <<"U+0575", <<"U+0545">> >>, <<"U+0576", <<"U+0546">> >>,
      <<"U+0577", <<"U+0547">> >>, <<"U+0578", <<"U+0548">> >>,
      <<"U+0579", <<"U+0549">> >>, <<"U+057A", <<"U+054A">> >>,
      <<"U+057B", <<"U+054B">> >>, <<"U+057C", <<"U+054C">> >>,
      <<"U+057D", <<"U+054D">> >>, <<"U+057E", <<"U+054E">> >>,
      <<"U+057F", <<"U+054F">> >>, <<"U+0580", <<"U+0550">> >>,
      <<"U+0581", <<"U+0551">> >>, <<"U+0582", <<"U+0552">> >>,
      <<"U+0583", <<"U+0553">> >>, <<"U+0584", <<"U+0554">> >>,
      <<"U+0585", <<"U+0555">> >>, <<"U+0586", <<"U+0556">> >>,
      <<"U+0587", <<"U+0535", "U+0552">> >>, <<"U+10D0", <<"U+1C90">> >>,
      <<"U+10D1", <<"U+1C91">> >>, <<"U+10D2", <<"U+1C92">> >>,
      <<"U+10D3", <<"U+1C93">> >>, <<"U+10D4", <<"U+1C94">> >>,
      <<"U+10D5", <<"U+1C95">> >>, <<"U+10D6", <<"U+1C96">> >>,
      <<"U+10D7", <<"U+1C97">> >>, <<"U+10D8", <<"U+1C98">> >>,
      <<"U+10D9", <<"U+1C99">> >>, <<"U+10DA", <<"U+1C9A">> >>,
      <<"U+10DB", <<"U+1C9B">> >>, <<"U+10DC", <<"U+1C9C">> >>,
      <<"U+10DD", <<"U+1C9D">> >>, <<"U+10DE", <<"U+1C9E">> >>,
      <<"U+10DF", <<"U+1C9F">> >>, <<"U+10E0", <<"U+1CA0">> >>,
      <<"U+10E1", <<"U+1CA1">> >>, <<"U+10E2", <<"U+1CA2">> >>,
      <<"U+10E3", <<"U+1CA3">> >>, <<"U+10E4", <<"U+1CA4">> >>,
      <<"U+10E5", <<"U+1CA5">> >>, <<"U+10E6", <<"U+1CA6">> >>,
      <<"U+10E7", <<"U+1CA7">> >>, <<"U+10E8", <<"U+1CA8">> >>,
      <<"U+10E9", <<"U+1CA9">> >>, <<"U+10EA", <<"U+1CAA">> >>,
      <<"U+10EB", <<"U+1CAB">> >>, <<"U+10EC", <<"U+1CAC">> >>,
      <<"U+10ED", <<"U+1CAD">> >>, <<"U+10EE", <<"U+1CAE">> >>,
      <<"U+10EF", <<"U+1CAF">> >>, <<"U+10F0", <<"U+1CB0">> >>,
      <<"U+10F1", <<"U+1CB1">> >>, <<"U+10F2", <<"U+1CB2">> >>,
      <<"U+10F3", <<"U+1CB3">> >>, <<"U+10F4", <<"U+1CB4">> >>,
      <<"U+10F5", <<"U+1CB5">> >>, <<"U+10F6", <<"U+1CB6">> >>,
      <<"U+10F7", <<"U+1CB7">> >>, <<"U+10F8", <<"U+1CB8">> >>,
      <<"U+10F9", <<"U+1CB9">> >>, <<"U+10FA", <<"U+1CBA">> >>,
      <<"U+10FD", <<"U+1CBD">> >>, <<"U+10FE", <<"U+1CBE">> >>,
      <<"U+10FF", <<"U+1CBF">> >>, <<"U+13F8", <<"U+13F0">> >>,
      <<"U+13F9", <<"U+13F1">> >>, <<"U+13FA", <<"U+13F2">> >>,
      <<"U+13FB", <<"U+13F3">> >>, <<"U+13FC", <<"U+13F4">> >>,
      <<"U+13FD", <<"U+13F5">> >>, <<"U+1C80", <<"U+0412">> >>,
      <<"U+1C81", <<"U+0414">> >>, <<"U+1C82", <<"U+041E">> >>,
      <<"U+1C83", <<"U+0421">> >>, <<"U+1C84", <<"U+0422">> >>,
      <<"U+1C85", <<"U+0422">> >>, <<"U+1C86", <<"U+042A">> >>,
      <<"U+1C87", <<"U+0462">> >>, <<"U+1C88", <<"U+A64A">> >>,
      <<"U+1D79", <<"U+A77D">> >>, <<"U+1D7D", <<"U+2C63">> >>,
      <<"U+1D8E", <<"U+A7C6">> >>, <<"U+1E01", <<"U+1E00">> >>,
      <<"U+1E03", <<"U+1E02">> >>, <<"U+1E05", <<"U+1E04">> >>,
      <<"U+1E07", <<"U+1E06">> >>, <<"U+1E09", <<"U+1E08">> >>,
      <<"U+1E0B", <<"U+1E0A">> >>, <<"U+1E0D", <<"U+1E0C">> >>,
      <<"U+1E0F", <<"U+1E0E">> >>, <<"U+1E11", <<"U+1E10">> >>,
      <<"U+1E13", <<"U+1E12">> >>, <<"U+1E15", <<"U+1E14">> >>,
      <<"U+1E17", <<"U+1E16">> >>, <<"U+1E19", <<"U+1E18">> >>,
      <<"U+1E1B", <<"U+1E1A">> >>, <<"U+1E1D", <<"U+1E1C">> >>,
      <<"U+1E1F", <<"U+1E1E">> >>, <<"U+1E21", <<"U+1E20">> >>,
      <<"U+1E23", <<"U+1E22">> >>, <<"U+1E25", <<"U+1E24">> >>,
      <<"U+1E27", <<"U+1E26">> >>, <<"U+1E29", <<"U+1E28">> >>,
      <<"U+1E2B", <<"U+1E2A">> >>, <<"U+1E2D", <<"U+1E2C">> >>,
      <<"U+1E2F", <<"U+1E2E">> >>, <<"U+1E31", <<"U+1E30">> >>,
      <<"U+1E33", <<"U+1E32">> >>, <<"U+1E35", <<"U+1E34">> >>,
      <<"U+1E37", <<"U+1E36">> >>, <<"U+1E39", <<"U+1E38">> >>,
      <<"U+1E3B", <<"U+1E3A">> >>, <<"U+1E3D", <<"U+1E3C">> >>,
      <<"U+1E3F", <<"U+1E3E">> >>, <<"U+1E41", <<"U+1E40">> >>,
      <<"U+1E43", <<"U+1E42">> >>, <<"U+1E45", <<"U+1E44">> >>,
      <<"U+1E47", <<"U+1E46">> >>, <<"U+1E49", <<"U+1E48">> >>,
      <<"U+1E4B", <<"U+1E4A">> >>, <<"U+1E4D", <<"U+1E4C">> >>,
      <<"U+1E4F", <<"U+1E4E">> >>, <<"U+1E51", <<"U+1E50">> >>,
      <<"U+1E53", <<"U+1E52">> >>, <<"U+1E55", <<"U+1E54">> >>,
      <<"U+1E57", <<"U+1E56">> >>, <<"U+1E59", <<"U+1E58">> >>,
      <<"U+1E5B", <<"U+1E5A">> >>, <<"U+1E5D", <<"U+1E5C">> >>,
      <<"U+1E5F", <<"U+1E5E">> >>, <<"U+1E61", <<"U+1E60">> >>,
      <<"U+1E63", <<"U+1E62">> >>, <<"U+1E65", <<"U+1E64">> >>,
      <<"U+1E67", <<"U+1E66">> >>, <<"U+1E69", <<"U+1E68">> >>,
      <<"U+1E6B", <<"U+1E6A">> >>, <<"U+1E6D", <<"U+1E6C">> >>,
      <<"U+1E6F", <<"U+1E6E">> >>, <<"U+1E71", <<"U+1E70">> >>,
      <<"U+1E73", <<"U+1E72">> >>, <<"U+1E75", <<"U+1E74">> >>,
      <<"U+1E77", <<"U+1E76">> >>, <<"U+1E79", <<"U+1E78">> >>,
      <<"U+1E7B", <<"U+1E7A">> >>, <<"U+1E7D", <<"U+1E7C">> >>,
      <<"U+1E7F", <<"U+1E7E">> >>, <<"U+1E81", <<"U+1E80">> >>,
      <<"U+1E83", <<"U+1E82">> >>, <<"U+1E85", <<"U+1E84">> >>,
      <<"U+1E87", <<"U+1E86">> >>, <<"U+1E89", <<"U+1E88">> >>,
      <<"U+1E8B", <<"U+1E8A">> >>, <<"U+1E8D", <<"U+1E8C">> >>,
      <<"U+1E8F", <<"U+1E8E">> >>, <<"U+1E91", <<"U+1E90">> >>,
      <<"U+1E93", <<"U+1E92">> >>, <<"U+1E95", <<"U+1E94">> >>,
      <<"U+1E96", <<"H", "U+0331">> >>, <<"U+1E97", <<"T", "U+0308">> >>,
      <<"U+1E98", <<"W", "U+030A">> >>, <<"U+1E99", <<"Y", "U+030A">> >>,
      <<"U+1E9A", <<"A", "U+02BE">> >>, <<"U+1E9B", <<"U+1E60">> >>,
      <<"U+1EA1", <<"U+1EA0">> >>, <<"U+1EA3", <<"U+1EA2">> >>,
      <<"U+1EA5", <<"U+1EA4">> >>, <<"U+1EA7", <<"U+1EA6">> >>,
      <<"U+1EA9", <<"U+1EA8">> >>, <<"U+1EAB", <<"U+1EAA">> >>,
      <<"U+1EAD", <<"U+1EAC">> >>, <<"U+1EAF", <<"U+1EAE">> >>,
      <<"U+1EB1", <<"U+1EB0">> >>, <<"U+1EB3", <<"U+1EB2">> >>,
      <<"U+1EB5", <<"U+1EB4">> >>, <<"U+1EB7", <<"U+1EB6">> >>,
      <<"U+1EB9", <<"U+1EB8">> >>, <<"U+1EBB", <<"U+1EBA">> >>,
      <<"U+1EBD", <<"U+1EBC">> >>, <<"U+1EBF", <<"U+1EBE">> >>,
      <<"U+1EC1", <<"U+1EC0">> >>, <<"U+1EC3", <<"U+1EC2">> >>,
      <<"U+1EC5", <<"U+1EC4">> >>, <<"U+1EC7", <<"U+1EC6">> >>,
      <<"U+1EC9", <<"U+1EC8">> >>, <<"U+1ECB", <<"U+1ECA">> >>,
      <<"U+1ECD", <<"U+1ECC">> >>, <<"U+1ECF", <<"U+1ECE">> >>,
      <<"U+1ED1", <<"U+1ED0">> >>, <<"U+1ED3", <<"U+1ED2">> >>,
      <<"U+1ED5", <<"U+1ED4">> >>, <<"U+1ED7", <<"U+1ED6">> >>,
      <<"U+1ED9", <<"U+1ED8">> >>, <<"U+1EDB", <<"U+1EDA">> >>,
      <<"U+1EDD", <<"U+1EDC">> >>, <<"U+1EDF", <<"U+1EDE">> >>,
      <<"U+1EE1", <<"U+1EE0">> >>, <<"U+1EE3", <<"U+1EE2">> >>,
      <<"U+1EE5", <<"U+1EE4">> >>, <<"U+1EE7", <<"U+1EE6">> >>,
      <<"U+1EE9", <<"U+1EE8">> >>, <<"U+1EEB", <<"U+1EEA">> >>,
      <<"U+1EED", <<"U+1EEC">> >>, <<"U+1EEF", <<"U+1EEE">> >>,
      <<"U+1EF1", <<"U+1EF0">> >>, <<"U+1EF3", <<"U+1EF2">> >>,
      <<"U+1EF5", <<"U+1EF4">> >>, <<"U+1EF7", <<"U+1EF6">> >>,
      <<"U+1EF9", <<"U+1EF8">> >>, <<"U+1EFB", <<"U+1EFA">> >>,
      <<"U+1EFD", <<"U+1EFC">> >>, <<"U+1EFF", <<"U+1EFE">> >>,
      <<"U+1F00", <<"U+1F08">> >>, <<"U+1F01", <<"U+1F09">> >>,
      <<"U+1F02", <<"U+1F0A">> >>, <<"U+1F03", <<"U+1F0B">> >>,
      <<"U+1F04", <<"U+1F0C">> >>, <<"U+1F05", <<"U+1F0D">> >>,
      <<"U+1F06", <<"U+1F0E">> >>, <<"U+1F07", <<"U+1F0F">> >>,
      <<"U+1F10", <<"U+1F18">> >>, <<"U+1F11", <<"U+1F19">> >>,
      <<"U+1F12", <<"U+1F1A">> >>, <<"U+1F13", <<"U+1F1B">> >>,
      <<"U+1F14", <<"U+1F1C">> >>, <<"U+1F15", <<"U+1F1D">> >>,
      <<"U+1F20", <<"U+1F28">> >>, <<"U+1F21", <<"U+1F29">> >>,
      <<"U+1F22", <<"U+1F2A">> >>, <<"U+1F23", <<"U+1F2B">> >>,
      <<"U+1F24", <<"U+1F2C">> >>, <<"U+1F25", <<"U+1F2D">> >>,
      <<"U+1F26", <<"U+1F2E">> >>, <<"U+1F27", <<"U+1F2F">> >>,
      <<"U+1F30", <<"U+1F38">> >>, <<"U+1F31", <<"U+1F39">> >>,
      <<"U+1F32", <<"U+1F3A">> >>, <<"U+1F33", <<"U+1F3B">> >>,
      <<"U+1F34", <<"U+1F3C">> >>, <<"U+1F35", <<"U+1F3D">> >>,
      <<"U+1F36", <<"U+1F3E">> >>, <<"U+1F37", <<"U+1F3F">> >>,
      <<"U+1F40", <<"U+1F48">> >>, <<"U+1F41", <<"U+1F49">> >>,
      <<"U+1F42", <<"U+1F4A">> >>, <<"U+1F43", <<"U+1F4B">> >>,
      <<"U+1F44", <<"U+1F4C">> >>, <<"U+1F45", <<"U+1F4D">> >>,
      <<"U+1F50", <<"U+03A5", "U+0313">> >>, <<"U+1F51", <<"U+1F59">> >>,
      <<"U+1F52", <<"U+03A5", "U+0313", "U+0300">> >>,
      <<"U+1F53", <<"U+1F5B">> >>,
      <<"U+1F54", <<"U+03A5", "U+0313", "U+0301">> >>,
      <<"U+1F55", <<"U+1F5D">> >>,
      <<"U+1F56", <<"U+03A5", "U+0313", "U+0342">> >>,
      <<"U+1F57", <<"U+1F5F">> >>, <<"U+1F60", <<"U+1F68">> >>,
      <<"U+1F61", <<"U+1F69">> >>, <<"U+1F62", <<"U+1F6A">> >>,
      <<"U+1F63", <<"U+1F6B">> >>, <<"U+1F64", <<"U+1F6C">> >>,
      <<"U+1F65", <<"U+1F6D">> >>, <<"U+1F66", <<"U+1F6E">> >>,
      <<"U+1F67", <<"U+1F6F">> >>, <<"U+1F70", <<"U+1FBA">> >>,
      <<"U+1F71", <<"U+1FBB">> >>, <<"U+1F72", <<"U+1FC8">> >>,
      <<"U+1F73", <<"U+1FC9">> >>, <<"U+1F74", <<"U+1FCA">> >>,
      <<"U+1F75", <<"U+1FCB">> >>, <<"U+1F76", <<"U+1FDA">> >>,
      <<"U+1F77", <<"U+1FDB">> >>, <<"U+1F78", <<"U+1FF8">> >>,
      <<"U+1F79", <<"U+1FF9">> >>, <<"U+1F7A", <<"U+1FEA">> >>,
      <<"U+1F7B", <<"U+1FEB">> >>, <<"U+1F7C", <<"U+1FFA">> >>,
      <<"U+1F7D", <<"U+1FFB">> >>, <<"U+1F80", <<"U+1F08", "U+0399">> >>,
      <<"U+1F81", <<"U+1F09", "U+0399">> >>,
      <<"U+1F82", <<"U+1F0A", "U+0399">> >>,
      <<"U+1F83", <<"U+1F0B", "U+0399">> >>,
      <<"U+1F84", <<"U+1F0C", "U+0399">> >>,
      <<"U+1F85", <<"U+1F0D", "U+0399">> >>,
      <<"U+1F86", <<"U+1F0E", "U+0399">> >>,
      <<"U+1F87", <<"U+1F0F", "U+0399">> >>,
      <<"U+1F88", <<"U+1F08", "U+0399">> >>,
      <<"U+1F89", <<"U+1F09", "U+0399">> >>,
      <<"U+1F8A", <<"U+1F0A", "U+0399">> >>,
      <<"U+1F8B", <<"U+1F0B", "U+0399">> >>,
      <<"U+1F8C", <<"U+1F0C", "U+0399">> >>,
      <<"U+1F8D", <<"U+1F0D", "U+0399">> >>,
      <<"U+1F8E", <<"U+1F0E", "U+0399">> >>,
      <<"U+1F8F", <<"U+1F0F", "U+0399">> >>,
      <<"U+1F90", <<"U+1F28", "U+0399">> >>,
      <<"U+1F91", <<"U+1F29", "U+0399">> >>,
      <<"U+1F92", <<"U+1F2A", "U+0399">> >>,
      <<"U+1F93", <<"U+1F2B", "U+0399">> >>,
      <<"U+1F94", <<"U+1F2C", "U+0399">> >>,
      <<"U+1F95", <<"U+1F2D", "U+0399">> >>,
      <<"U+1F96", <<"U+1F2E", "U+0399">> >>,
      <<"U+1F97", <<"U+1F2F", "U+0399">> >>,
      <<"U+1F98", <<"U+1F28", "U+0399">> >>,
      <<"U+1F99", <<"U+1F29", "U+0399">> >>,
      <<"U+1F9A", <<"U+1F2A", "U+0399">> >>,
      <<"U+1F9B", <<"U+1F2B", "U+0399">> >>,
      <<"U+1F9C", <<"U+1F2C", "U+0399">> >>,
      <<"U+1F9D", <<"U+1F2D", "U+0399">> >>,
      <<"U+1F9E", <<"U+1F2E", "U+0399">> >>,
      <<"U+1F9F", <<"U+1F2F", "U+0399">> >>,
      <<"U+1FA0", <<"U+1F68", "U+0399">> >>,
      <<"U+1FA1", <<"U+1F69", "U+0399">> >>,
      <<"U+1FA2", <<"U+1F6A", "U+0399">> >>,
      <<"U+1FA3", <<"U+1F6B", "U+0399">> >>,
      <<"U+1FA4", <<"U+1F6C", "U+0399">> >>,
      <<"U+1FA5", <<"U+1F6D", "U+0399">> >>,
      <<"U+1FA6", <<"U+1F6E", "U+0399">> >>,
      <<"U+1FA7", <<"U+1F6F", "U+0399">> >>,
      <<"U+1FA8", <<"U+1F68", "U+0399">> >>,
      <<"U+1FA9", <<"U+1F69", "U+0399">> >>,
      <<"U+1FAA", <<"U+1F6A", "U+0399">> >>,
      <<"U+1FAB", <<"U+1F6B", "U+0399">> >>,
      <<"U+1FAC", <<"U+1F6C", "U+0399">> >>,
      <<"U+1FAD", <<"U+1F6D", "U+0399">> >>,
      <<"U+1FAE", <<"U+1F6E", "U+0399">> >>,
      <<"U+1FAF", <<"U+1F6F", "U+0399">> >>, <<"U+1FB0", <<"U+1FB8">> >>,
      <<"U+1FB1", <<"U+1FB9">> >>, <<"U+1FB2", <<"U+1FBA", "U+0399">> >>,
      <<"U+1FB3", <<"U+0391", "U+0399">> >>,
      <<"U+1FB4", <<"U+0386", "U+0399">> >>,
      <<"U+1FB6", <<"U+0391", "U+0342">> >>,
      <<"U+1FB7", <<"U+0391", "U+0342", "U+0399">> >>,
      <<"U+1FBC", <<"U+0391", "U+0399">> >>, <<"U+1FBE", <<"U+0399">> >>,
      <<"U+1FC2", <<"U+1FCA", "U+0399">> >>,
      <<"U+1FC3", <<"U+0397", "U+0399">> >>,
      <<"U+1FC4", <<"U+0389", "U+0399">> >>,
      <<"U+1FC6", <<"U+0397", "U+0342">> >>,
      <<"U+1FC7", <<"U+0397", "U+0342", "U+0399">> >>,
      <<"U+1FCC", <<"U+0397", "U+0399">> >>, <<"U+1FD0", <<"U+1FD8">> >>,
      <<"U+1FD1", <<"U+1FD9">> >>,
      <<"U+1FD2", <<"U+0399", "U+0308", "U+0300">> >>,
      <<"U+1FD3", <<"U+0399", "U+0308", "U+0301">> >>,
      <<"U+1FD6", <<"U+0399", "U+0342">> >>,
      <<"U+1FD7", <<"U+0399", "U+0308", "U+0342">> >>,
      <<"U+1FE0", <<"U+1FE8">> >>, <<"U+1FE1", <<"U+1FE9">> >>,
      <<"U+1FE2", <<"U+03A5", "U+0308", "U+0300">> >>,
      <<"U+1FE3", <<"U+03A5", "U+0308", "U+0301">> >>,
      <<"U+1FE4", <<"U+03A1", "U+0313">> >>, <<"U+1FE5", <<"U+1FEC">> >>,
      <<"U+1FE6", <<"U+03A5", "U+0342">> >>,
      <<"U+1FE7", <<"U+03A5", "U+0308", "U+0342">> >>,
      <<"U+1FF2", <<"U+1FFA", "U+0399">> >>,
      <<"U+1FF3", <<"U+03A9", "U+0399">> >>,
      <<"U+1FF4", <<"U+038F", "U+0399">> >>,
      <<"U+1FF6", <<"U+03A9", "U+0342">> >>,
      <<"U+1FF7", <<"U+03A9", "U+0342", "U+0399">> >>,
      <<"U+1FFC", <<"U+03A9", "U+0399">> >>, <<"U+214E", <<"U+2132">> >>,
      <<"U+2170", <<"U+2160">> >>, <<"U+2171", <<"U+2161">> >>,
      <<"U+2172", <<"U+2162">> >>, <<"U+2173", <<"U+2163">> >>,
      <<"U+2174", <<"U+2164">> >>, <<"U+2175", <<"U+2165">> >>,
      <<"U+2176", <<"U+2166">> >>, <<"U+2177", <<"U+2167">> >>,
      <<"U+2178", <<"U+2168">> >>, <<"U+2179", <<"U+2169">> >>,
      <<"U+217A", <<"U+216A">> >>, <<"U+217B", <<"U+216B">> >>,
      <<"U+217C", <<"U+216C">> >>, <<"U+217D", <<"U+216D">> >>,
      <<"U+217E", <<"U+216E">> >>, <<"U+217F", <<"U+216F">> >>,
      <<"U+2184", <<"U+2183">> >>, <<"U+24D0", <<"U+24B6">> >>,
      <<"U+24D1", <<"U+24B7">> >>, <<"U+24D2", <<"U+24B8">> >>,
      <<"U+24D3", <<"U+24B9">> >>, <<"U+24D4", <<"U+24BA">> >>,
      <<"U+24D5", <<"U+24BB">> >>, <<"U+24D6", <<"U+24BC">> >>,
      <<"U+24D7", <<"U+24BD">> >>, <<"U+24D8", <<"U+24BE">> >>,
      <<"U+24D9", <<"U+24BF">> >>, <<"U+24DA", <<"U+24C0">> >>,
      <<"U+24DB", <<"U+24C1">> >>, <<"U+24DC", <<"U+24C2">> >>,
      <<"U+24DD", <<"U+24C3">> >>, <<"U+24DE", <<"U+24C4">> >>,
      <<"U+24DF", <<"U+24C5">> >>, <<"U+24E0", <<"U+24C6">> >>,
      <<"U+24E1", <<"U+24C7">> >>, <<"U+24E2", <<"U+24C8">> >>,
      <<"U+24E3", <<"U+24C9">> >>, <<"U+24E4", <<"U+24CA">> >>,
      <<"U+24E5", <<"U+24CB">> >>, <<"U+24E6", <<"U+24CC">> >>,
      <<"U+24E7", <<"U+24CD">> >>, <<"U+24E8", <<"U+24CE">> >>,
      <<"U+24E9", <<"U+24CF">> >>, <<"U+2C30", <<"U+2C00">> >>,
      <<"U+2C31", <<"U+2C01">> >>, <<"U+2C32", <<"U+2C02">> >>,
      <<"U+2C33", <<"U+2C03">> >>, <<"U+2C34", <<"U+2C04">> >>,
      <<"U+2C35", <<"U+2C05">> >>, <<"U+2C36", <<"U+2C06">> >>,
      <<"U+2C37", <<"U+2C07">> >>, <<"U+2C38", <<"U+2C08">> >>,
      <<"U+2C39", <<"U+2C09">> >>, <<"U+2C3A", <<"U+2C0A">> >>,
      <<"U+2C3B", <<"U+2C0B">> >>, <<"U+2C3C", <<"U+2C0C">> >>,
      <<"U+2C3D", <<"U+2C0D">> >>, <<"U+2C3E", <<"U+2C0E">> >>,
      <<"U+2C3F", <<"U+2C0F">> >>, <<"U+2C40", <<"U+2C10">> >>,
      <<"U+2C41", <<"U+2C11">> >>, <<"U+2C42", <<"U+2C12">> >>,
      <<"U+2C43", <<"U+2C13">> >>, <<"U+2C44", <<"U+2C14">> >>,
      <<"U+2C45", <<"U+2C15">> >>, <<"U+2C46", <<"U+2C16">> >>,
      <<"U+2C47", <<"U+2C17">> >>, <<"U+2C48", <<"U+2C18">> >>,
      <<"U+2C49", <<"U+2C19">> >>, <<"U+2C4A", <<"U+2C1A">> >>,
      <<"U+2C4B", <<"U+2C1B">> >>, <<"U+2C4C", <<"U+2C1C">> >>,
      <<"U+2C4D", <<"U+2C1D">> >>, <<"U+2C4E", <<"U+2C1E">> >>,
      <<"U+2C4F", <<"U+2C1F">> >>, <<"U+2C50", <<"U+2C20">> >>,
      <<"U+2C51", <<"U+2C21">> >>, <<"U+2C52", <<"U+2C22">> >>,
      <<"U+2C53", <<"U+2C23">> >>, <<"U+2C54", <<"U+2C24">> >>,
      <<"U+2C55", <<"U+2C25">> >>, <<"U+2C56", <<"U+2C26">> >>,
      <<"U+2C57", <<"U+2C27">> >>, <<"U+2C58", <<"U+2C28">> >>,
      <<"U+2C59", <<"U+2C29">> >>, <<"U+2C5A", <<"U+2C2A">> >>,
      <<"U+2C5B", <<"U+2C2B">> >>, <<"U+2C5C", <<"U+2C2C">> >>,
      <<"U+2C5D", <<"U+2C2D">> >>, <<"U+2C5E", <<"U+2C2E">> >>,
      <<"U+2C5F", <<"U+2C2F">> >>, <<"U+2C61", <<"U+2C60">> >>,
      <<"U+2C65", <<"U+023A">> >>, <<"U+2C66", <<"U+023E">> >>,
      <<"U+2C68", <<"U+2C67">> >>, <<"U+2C6A", <<"U+2C69">> >>,
      <<"U+2C6C", <<"U+2C6B">> >>, <<"U+2C73", <<"U+2C72">> >>,
      <<"U+2C76", <<"U+2C75">> >>, <<"U+2C81", <<"U+2C80">> >>,
      <<"U+2C83", <<"U+2C82">> >>, <<"U+2C85", <<"U+2C84">> >>,
      <<"U+2C87", <<"U+2C86">> >>, <<"U+2C89", <<"U+2C88">> >>,
      <<"U+2C8B", <<"U+2C8A">> >>, <<"U+2C8D", <<"U+2C8C">> >>,
      <<"U+2C8F", <<"U+2C8E">> >>, <<"U+2C91", <<"U+2C90">> >>,
      <<"U+2C93", <<"U+2C92">> >>, <<"U+2C95", <<"U+2C94">> >>,
      <<"U+2C97", <<"U+2C96">> >>, <<"U+2C99", <<"U+2C98">> >>,
      <<"U+2C9B", <<"U+2C9A">> >>, <<"U+2C9D", <<"U+2C9C">> >>,
      <<"U+2C9F", <<"U+2C9E">> >>, <<"U+2CA1", <<"U+2CA0">> >>,
      <<"U+2CA3", <<"U+2CA2">> >>, <<"U+2CA5", <<"U+2CA4">> >>,
      <<"U+2CA7", <<"U+2CA6">> >>, <<"U+2CA9", <<"U+2CA8">> >>,
      <<"U+2CAB", <<"U+2CAA">> >>, <<"U+2CAD", <<"U+2CAC">> >>,
      <<"U+2CAF", <<"U+2CAE">> >>, <<"U+2CB1", <<"U+2CB0">> >>,
      <<"U+2CB3", <<"U+2CB2">> >>, <<"U+2CB5", <<"U+2CB4">> >>,
      <<"U+2CB7", <<"U+2CB6">> >>, <<"U+2CB9", <<"U+2CB8">> >>,
      <<"U+2CBB", <<"U+2CBA">> >>, <<"U+2CBD", <<"U+2CBC">> >>,
      <<"U+2CBF", <<"U+2CBE">> >>, <<"U+2CC1", <<"U+2CC0">> >>,
      <<"U+2CC3", <<"U+2CC2">> >>, <<"U+2CC5", <<"U+2CC4">> >>,
      <<"U+2CC7", <<"U+2CC6">> >>, <<"U+2CC9", <<"U+2CC8">> >>,
      <<"U+2CCB", <<"U+2CCA">> >>, <<"U+2CCD", <<"U+2CCC">> >>,
      <<"U+2CCF", <<"U+2CCE">> >>, <<"U+2CD1", <<"U+2CD0">> >>,
      <<"U+2CD3", <<"U+2CD2">> >>, <<"U+2CD5", <<"U+2CD4">> >>,
      <<"U+2CD7", <<"U+2CD6">> >>, <<"U+2CD9", <<"U+2CD8">> >>,
      <<"U+2CDB", <<"U+2CDA">> >>, <<"U+2CDD", <<"U+2CDC">> >>,
      <<"U+2CDF", <<"U+2CDE">> >>, <<"U+2CE1", <<"U+2CE0">> >>,
      <<"U+2CE3", <<"U+2CE2">> >>, <<"U+2CEC", <<"U+2CEB">> >>,
      <<"U+2CEE", <<"U+2CED">> >>, <<"U+2CF3", <<"U+2CF2">> >>,
      <<"U+2D00", <<"U+10A0">> >>, <<"U+2D01", <<"U+10A1">> >>,
      <<"U+2D02", <<"U+10A2">> >>, <<"U+2D03", <<"U+10A3">> >>,
      <<"U+2D04", <<"U+10A4">> >>, <<"U+2D05", <<"U+10A5">> >>,
      <<"U+2D06", <<"U+10A6">> >>, <<"U+2D07", <<"U+10A7">> >>,
      <<"U+2D08", <<"U+10A8">> >>, <<"U+2D09", <<"U+10A9">> >>,
      <<"U+2D0A", <<"U+10AA">> >>, <<"U+2D0B", <<"U+10AB">> >>,
      <<"U+2D0C", <<"U+10AC">> >>, <<"U+2D0D", <<"U+10AD">> >>,
      <<"U+2D0E", <<"U+10AE">> >>, <<"U+2D0F", <<"U+10AF">> >>,
      <<"U+2D10", <<"U+10B0">> >>, <<"U+2D11", <<"U+10B1">> >>,
      <<"U+2D12", <<"U+10B2">> >>, <<"U+2D13", <<"U+10B3">> >>,
      <<"U+2D14", <<"U+10B4">> >>, <<"U+2D15", <<"U+10B5">> >>,
      <<"U+2D16", <<"U+10B6">> >>, <<"U+2D17", <<"U+10B7">> >>,
      <<"U+2D18", <<"U+10B8">> >>, <<"U+2D19", <<"U+10B9">> >>,
      <<"U+2D1A", <<"U+10BA">> >>, <<"U+2D1B", <<"U+10BB">> >>,
      <<"U+2D1C", <<"U+10BC">> >>, <<"U+2D1D", <<"U+10BD">> >>,
      <<"U+2D1E", <<"U+10BE">> >>, <<"U+2D1F", <<"U+10BF">> >>,
      <<"U+2D20", <<"U+10C0">> >>, <<"U+2D21", <<"U+10C1">> >>,
      <<"U+2D22", <<"U+10C2">> >>, <<"U+2D23", <<"U+10C3">> >>,
      <<"U+2D24", <<"U+10C4">> >>, <<"U+2D25", <<"U+10C5">> >>,
      <<"U+2D27", <<"U+10C7">> >>, <<"U+2D2D", <<"U+10CD">> >>,
      <<"U+A641", <<"U+A640">> >>, <<"U+A643", <<"U+A642">> >>,
      <<"U+A645", <<"U+A644">> >>, <<"U+A647", <<"U+A646">> >>,
      <<"U+A649", <<"U+A648">> >>, <<"U+A64B", <<"U+A64A">> >>,
      <<"U+A64D", <<"U+A64C">> >>, <<"U+A64F", <<"U+A64E">> >>,
      <<"U+A651", <<"U+A650">> >>, <<"U+A653", <<"U+A652">> >>,
      <<"U+A655", <<"U+A654">> >>, <<"U+A657", <<"U+A656">> >>,
      <<"U+A659", <<"U+A658">> >>, <<"U+A65B", <<"U+A65A">> >>,
      <<"U+A65D", <<"U+A65C">> >>, <<"U+A65F", <<"U+A65E">> >>,
      <<"U+A661", <<"U+A660">> >>, <<"U+A663", <<"U+A662">> >>,
      <<"U+A665", <<"U+A664">> >>, <<"U+A667", <<"U+A666">> >>,
      <<"U+A669", <<"U+A668">> >>, <<"U+A66B", <<"U+A66A">> >>,
      <<"U+A66D", <<"U+A66C">> >>, <<"U+A681", <<"U+A680">> >>,
      <<"U+A683", <<"U+A682">> >>, <<"U+A685", <<"U+A684">> >>,
      <<"U+A687", <<"U+A686">> >>, <<"U+A689", <<"U+A688">> >>,
      <<"U+A68B", <<"U+A68A">> >>, <<"U+A68D", <<"U+A68C">> >>,
      <<"U+A68F", <<"U+A68E">> >>, <<"U+A691", <<"U+A690">> >>,
      <<"U+A693", <<"U+A692">> >>, <<"U+A695", <<"U+A694">> >>,
      <<"U+A697", <<"U+A696">> >>, <<"U+A699", <<"U+A698">> >>,
      <<"U+A69B", <<"U+A69A">> >>, <<"U+A723", <<"U+A722">> >>,
      <<"U+A725", <<"U+A724">> >>, <<"U+A727", <<"U+A726">> >>,
      <<"U+A729", <<"U+A728">> >>, <<"U+A72B", <<"U+A72A">> >>,
      <<"U+A72D", <<"U+A72C">> >>, <<"U+A72F", <<"U+A72E">> >>,
      <<"U+A733", <<"U+A732">> >>, <<"U+A735", <<"U+A734">> >>,
      <<"U+A737", <<"U+A736">> >>, <<"U+A739", <<"U+A738">> >>,
      <<"U+A73B", <<"U+A73A">> >>, <<"U+A73D", <<"U+A73C">> >>,
      <<"U+A73F", <<"U+A73E">> >>, <<"U+A741", <<"U+A740">> >>,
      <<"U+A743", <<"U+A742">> >>, <<"U+A745", <<"U+A744">> >>,
      <<"U+A747", <<"U+A746">> >>, <<"U+A749", <<"U+A748">> >>,
      <<"U+A74B", <<"U+A74A">> >>, <<"U+A74D", <<"U+A74C">> >>,
      <<"U+A74F", <<"U+A74E">> >>, <<"U+A751", <<"U+A750">> >>,
      <<"U+A753", <<"U+A752">> >>, <<"U+A755", <<"U+A754">> >>,
      <<"U+A757", <<"U+A756">> >>, <<"U+A759", <<"U+A758">> >>,
      <<"U+A75B", <<"U+A75A">> >>, <<"U+A75D", <<"U+A75C">> >>,
      <<"U+A75F", <<"U+A75E">> >>, <<"U+A761", <<"U+A760">> >>,
      <<"U+A763", <<"U+A762">> >>, <<"U+A765", <<"U+A764">> >>,
      <<"U+A767", <<"U+A766">> >>, <<"U+A769", <<"U+A768">> >>,
      <<"U+A76B", <<"U+A76A">> >>, <<"U+A76D", <<"U+A76C">> >>,
      <<"U+A76F", <<"U+A76E">> >>, <<"U+A77A", <<"U+A779">> >>,
      <<"U+A77C", <<"U+A77B">> >>, <<"U+A77F", <<"U+A77E">> >>,
      <<"U+A781", <<"U+A780">> >>, <<"U+A783", <<"U+A782">> >>,
      <<"U+A785", <<"U+A784">> >>, <<"U+A787", <<"U+A786">> >>,
      <<"U+A78C", <<"U+A78B">> >>, <<"U+A791", <<"U+A790">> >>,
      <<"U+A793", <<"U+A792">> >>, <<"U+A794", <<"U+A7C4">> >>,
      <<"U+A797", <<"U+A796">> >>, <<"U+A799", <<"U+A798">> >>,
      <<"U+A79B", <<"U+A79A">> >>, <<"U+A79D", <<"U+A79C">> >>,
      <<"U+A79F", <<"U+A79E">> >>, <<"U+A7A1", <<"U+A7A0">> >>,
      <<"U+A7A3", <<"U+A7A2">> >>, <<"U+A7A5", <<"U+A7A4">> >>,
      <<"U+A7A7", <<"U+A7A6">> >>, <<"U+A7A9", <<"U+A7A8">> >>,
      <<"U+A7B5", <<"U+A7B4">> >>, <<"U+A7B7", <<"U+A7B6">> >>,
      <<"U+A7B9", <<"U+A7B8">> >>, <<"U+A7BB", <<"U+A7BA">> >>,
      <<"U+A7BD", <<"U+A7BC">> >>, <<"U+A7BF", <<"U+A7BE">> >>,
      <<"U+A7C1", <<"U+A7C0">> >>, <<"U+A7C3", <<"U+A7C2">> >>,
      <<"U+A7C8", <<"U+A7C7">> >>, <<"U+A7CA", <<"U+A7C9">> >>,
      <<"U+A7D1", <<"U+A7D0">> >>, <<"U+A7D7", <<"U+A7D6">> >>,
      <<"U+A7D9", <<"U+A7D8">> >>, <<"U+A7F6", <<"U+A7F5">> >>,
      <<"U+AB53", <<"U+A7B3">> >>, <<"U+AB70", <<"U+13A0">> >>,
      <<"U+AB71", <<"U+13A1">> >>, <<"U+AB72", <<"U+13A2">> >>,
      <<"U+AB73", <<"U+13A3">> >>, <<"U+AB74", <<"U+13A4">> >>,
      <<"U+AB75", <<"U+13A5">> >>, <<"U+AB76", <<"U+13A6">> >>,
      <<"U+AB77", <<"U+13A7">> >>, <<"U+AB78", <<"U+13A8">> >>,
      <<"U+AB79", <<"U+13A9">> >>, <<"U+AB7A", <<"U+13AA">> >>,
      <<"U+AB7B", <<"U+13AB">> >>, <<"U+AB7C", <<"U+13AC">> >>,
      <<"U+AB7D", <<"U+13AD">> >>, <<"U+AB7E", <<"U+13AE">> >>,
      <<"U+AB7F", <<"U+13AF">> >>, <<"U+AB80", <<"U+13B0">> >>,
      <<"U+AB81", <<"U+13B1">> >>, <<"U+AB82", <<"U+13B2">> >>,
      <<"U+AB83", <<"U+13B3">> >>, <<"U+AB84", <<"U+13B4">> >>,
      <<"U+AB85", <<"U+13B5">> >>, <<"U+AB86", <<"U+13B6">> >>,
      <<"U+AB87", <<"U+13B7">> >>, <<"U+AB88", <<"U+13B8">> >>,
      <<"U+AB89", <<"U+13B9">> >>, <<"U+AB8A", <<"U+13BA">> >>,
      <<"U+AB8B", <<"U+13BB">> >>, <<"U+AB8C", <<"U+13BC">> >>,
      <<"U+AB8D", <<"U+13BD">> >>, <<"U+AB8E", <<"U+13BE">> >>,
      <<"U+AB8F", <<"U+13BF">> >>, <<"U+AB90", <<"U+13C0">> >>,
      <<"U+AB91", <<"U+13C1">> >>, <<"U+AB92", <<"U+13C2">> >>,
      <<"U+AB93", <<"U+13C3">> >>, <<"U+AB94", <<"U+13C4">> >>,
      <<"U+AB95", <<"U+13C5">> >>, <<"U+AB96", <<"U+13C6">> >>,
      <<"U+AB97", <<"U+13C7">> >>, <<"U+AB98", <<"U+13C8">> >>,
      <<"U+AB99", <<"U+13C9">> >>, <<"U+AB9A", <<"U+13CA">> >>,
      <<"U+AB9B", <<"U+13CB">> >>, <<"U+AB9C", <<"U+13CC">> >>,
      <<"U+AB9D", <<"U+13CD">> >>, <<"U+AB9E", <<"U+13CE">> >>,
      <<"U+AB9F", <<"U+13CF">> >>, <<"U+ABA0", <<"U+13D0">> >>,
      <<"U+ABA1", <<"U+13D1">> >>, <<"U+ABA2", <<"U+13D2">> >>,
      <<"U+ABA3", <<"U+13D3">> >>, <<"U+ABA4", <<"U+13D4">> >>,
      <<"U+ABA5", <<"U+13D5">> >>, <<"U+ABA6", <<"U+13D6">> >>,
      <<"U+ABA7", <<"U+13D7">> >>, <<"U+ABA8", <<"U+13D8">> >>,
      <<"U+ABA9", <<"U+13D9">> >>, <<"U+ABAA", <<"U+13DA">> >>,
      <<"U+ABAB", <<"U+13DB">> >>, <<"U+ABAC", <<"U+13DC">> >>,
      <<"U+ABAD", <<"U+13DD">> >>, <<"U+ABAE", <<"U+13DE">> >>,
      <<"U+ABAF", <<"U+13DF">> >>, <<"U+ABB0", <<"U+13E0">> >>,
      <<"U+ABB1", <<"U+13E1">> >>, <<"U+ABB2", <<"U+13E2">> >>,
      <<"U+ABB3", <<"U+13E3">> >>, <<"U+ABB4", <<"U+13E4">> >>,
      <<"U+ABB5", <<"U+13E5">> >>, <<"U+ABB6", <<"U+13E6">> >>,
      <<"U+ABB7", <<"U+13E7">> >>, <<"U+ABB8", <<"U+13E8">> >>,
      <<"U+ABB9", <<"U+13E9">> >>, <<"U+ABBA", <<"U+13EA">> >>,
      <<"U+ABBB", <<"U+13EB">> >>, <<"U+ABBC", <<"U+13EC">> >>,
      <<"U+ABBD", <<"U+13ED">> >>, <<"U+ABBE", <<"U+13EE">> >>,
      <<"U+ABBF", <<"U+13EF">> >>, <<"U+FB00", <<"F", "F">> >>,
      <<"U+FB01", <<"F", "I">> >>, <<"U+FB02", <<"F", "L">> >>,
      <<"U+FB03", <<"F", "F", "I">> >>, <<"U+FB04", <<"F", "F", "L">> >>,
      <<"U+FB05", <<"S", "T">> >>, <<"U+FB06", <<"S", "T">> >>,
      <<"U+FB13", <<"U+0544", "U+0546">> >>,
      <<"U+FB14", <<"U+0544", "U+0535">> >>,
      <<"U+FB15", <<"U+0544", "U+053B">> >>,
      <<"U+FB16", <<"U+054E", "U+0546">> >>,
      <<"U+FB17", <<"U+0544", "U+053D">> >>, <<"U+FF41", <<"U+FF21">> >>,
      <<"U+FF42", <<"U+FF22">> >>, <<"U+FF43", <<"U+FF23">> >>,
      <<"U+FF44", <<"U+FF24">> >>, <<"U+FF45", <<"U+FF25">> >>,
      <<"U+FF46", <<"U+FF26">> >>, <<"U+FF47", <<"U+FF27">> >>,
      <<"U+FF48", <<"U+FF28">> >>, <<"U+FF49", <<"U+FF29">> >>,
      <<"U+FF4A", <<"U+FF2A">> >>, <<"U+FF4B", <<"U+FF2B">> >>,
      <<"U+FF4C", <<"U+FF2C">> >>, <<"U+FF4D", <<"U+FF2D">> >>,
      <<"U+FF4E", <<"U+FF2E">> >>, <<"U+FF4F", <<"U+FF2F">> >>,
      <<"U+FF50", <<"U+FF30">> >>, <<"U+FF51", <<"U+FF31">> >>,
      <<"U+FF52", <<"U+FF32">> >>, <<"U+FF53", <<"U+FF33">> >>,
      <<"U+FF54", <<"U+FF34">> >>, <<"U+FF55", <<"U+FF35">> >>,
      <<"U+FF56", <<"U+FF36">> >>, <<"U+FF57", <<"U+FF37">> >>,
      <<"U+FF58", <<"U+FF38">> >>, <<"U+FF59", <<"U+FF39">> >>,
      <<"U+FF5A", <<"U+FF3A">> >>, <<"U+10428", <<"U+10400">> >>,
      <<"U+10429", <<"U+10401">> >>, <<"U+1042A", <<"U+10402">> >>,
      <<"U+1042B", <<"U+10403">> >>, <<"U+1042C", <<"U+10404">> >>,
      <<"U+1042D", <<"U+10405">> >>, <<"U+1042E", <<"U+10406">> >>,
      <<"U+1042F", <<"U+10407">> >>, <<"U+10430", <<"U+10408">> >>,
      <<"U+10431", <<"U+10409">> >>, <<"U+10432", <<"U+1040A">> >>,
      <<"U+10433", <<"U+1040B">> >>, <<"U+10434", <<"U+1040C">> >>,
      <<"U+10435", <<"U+1040D">> >>, <<"U+10436", <<"U+1040E">> >>,
      <<"U+10437", <<"U+1040F">> >>, <<"U+10438", <<"U+10410">> >>,
      <<"U+10439", <<"U+10411">> >>, <<"U+1043A", <<"U+10412">> >>,
      <<"U+1043B", <<"U+10413">> >>, <<"U+1043C", <<"U+10414">> >>,
      <<"U+1043D", <<"U+10415">> >>, <<"U+1043E", <<"U+10416">> >>,
      <<"U+1043F", <<"U+10417">> >>, <<"U+10440", <<"U+10418">> >>,
      <<"U+10441", <<"U+10419">> >>, <<"U+10442", <<"U+1041A">> >>,
      <<"U+10443", <<"U+1041B">> >>, <<"U+10444", <<"U+1041C">> >>,
      <<"U+10445", <<"U+1041D">> >>, <<"U+10446", <<"U+1041E">> >>,
      <<"U+10447", <<"U+1041F">> >>, <<"U+10448", <<"U+10420">> >>,
      <<"U+10449", <<"U+10421">> >>, <<"U+1044A", <<"U+10422">> >>,
      <<"U+1044B", <<"U+10423">> >>, <<"U+1044C", <<"U+10424">> >>,
      <<"U+1044D", <<"U+10425">> >>, <<"U+1044E", <<"U+10426">> >>,
      <<"U+1044F", <<"U+10427">> >>, <<"U+104D8", <<"U+104B0">> >>,
      <<"U+104D9", <<"U+104B1">> >>, <<"U+104DA", <<"U+104B2">> >>,
      <<"U+104DB", <<"U+104B3">> >>, <<"U+104DC", <<"U+104B4">> >>,
      <<"U+104DD", <<"U+104B5">> >>, <<"U+104DE", <<"U+104B6">> >>,
      <<"U+104DF", <<"U+104B7">> >>, <<"U+104E0", <<"U+104B8">> >>,
      <<"U+104E1", <<"U+104B9">> >>, <<"U+104E2", <<"U+104BA">> >>,
      <<"U+104E3", <<"U+104BB">> >>, <<"U+104E4", <<"U+104BC">> >>,
      <<"U+104E5", <<"U+104BD">> >>, <<"U+104E6", <<"U+104BE">> >>,
      <<"U+104E7", <<"U+104BF">> >>, <<"U+104E8", <<"U+104C0">> >>,
      <<"U+104E9", <<"U+104C1">> >>, <<"U+104EA", <<"U+104C2">> >>,
      <<"U+104EB", <<"U+104C3">> >>, <<"U+104EC", <<"U+104C4">> >>,
      <<"U+104ED", <<"U+104C5">> >>, <<"U+104EE", <<"U+104C6">> >>,
      <<"U+104EF", <<"U+104C7">> >>, <<"U+104F0", <<"U+104C8">> >>,
      <<"U+104F1", <<"U+104C9">> >>, <<"U+104F2", <<"U+104CA">> >>,
      <<"U+104F3", <<"U+104CB">> >>, <<"U+104F4", <<"U+104CC">> >>,
      <<"U+104F5", <<"U+104CD">> >>, <<"U+104F6", <<"U+104CE">> >>,
      <<"U+104F7", <<"U+104CF">> >>, <<"U+104F8", <<"U+104D0">> >>,
      <<"U+104F9", <<"U+104D1">> >>, <<"U+104FA", <<"U+104D2">> >>,
      <<"U+104FB", <<"U+104D3">> >>, <<"U+10597", <<"U+10570">> >>,
      <<"U+10598", <<"U+10571">> >>, <<"U+10599", <<"U+10572">> >>,
      <<"U+1059A", <<"U+10573">> >>, <<"U+1059B", <<"U+10574">> >>,
      <<"U+1059C", <<"U+10575">> >>, <<"U+1059D", <<"U+10576">> >>,
      <<"U+1059E", <<"U+10577">> >>, <<"U+1059F", <<"U+10578">> >>,
      <<"U+105A0", <<"U+10579">> >>, <<"U+105A1", <<"U+1057A">> >>,
      <<"U+105A3", <<"U+1057C">> >>, <<"U+105A4", <<"U+1057D">> >>,
      <<"U+105A5", <<"U+1057E">> >>, <<"U+105A6", <<"U+1057F">> >>,
      <<"U+105A7", <<"U+10580">> >>, <<"U+105A8", <<"U+10581">> >>,
      <<"U+105A9", <<"U+10582">> >>, <<"U+105AA", <<"U+10583">> >>,
      <<"U+105AB", <<"U+10584">> >>, <<"U+105AC", <<"U+10585">> >>,
      <<"U+105AD", <<"U+10586">> >>, <<"U+105AE", <<"U+10587">> >>,
      <<"U+105AF", <<"U+10588">> >>, <<"U+105B0", <<"U+10589">> >>,
      <<"U+105B1", <<"U+1058A">> >>, <<"U+105B3", <<"U+1058C">> >>,
      <<"U+105B4", <<"U+1058D">> >>, <<"U+105B5", <<"U+1058E">> >>,
      <<"U+105B6", <<"U+1058F">> >>, <<"U+105B7", <<"U+10590">> >>,
      <<"U+105B8", <<"U+10591">> >>, <<"U+105B9", <<"U+10592">> >>,
      <<"U+105BB", <<"U+10594">> >>, <<"U+105BC", <<"U+10595">> >>,
      <<"U+10CC0", <<"U+10C80">> >>, <<"U+10CC1", <<"U+10C81">> >>,
      <<"U+10CC2", <<"U+10C82">> >>, <<"U+10CC3", <<"U+10C83">> >>,
      <<"U+10CC4", <<"U+10C84">> >>, <<"U+10CC5", <<"U+10C85">> >>,
      <<"U+10CC6", <<"U+10C86">> >>, <<"U+10CC7", <<"U+10C87">> >>,
      <<"U+10CC8", <<"U+10C88">> >>, <<"U+10CC9", <<"U+10C89">> >>,
      <<"U+10CCA", <<"U+10C8A">> >>, <<"U+10CCB", <<"U+10C8B">> >>,
      <<"U+10CCC", <<"U+10C8C">> >>, <<"U+10CCD", <<"U+10C8D">> >>,
      <<"U+10CCE", <<"U+10C8E">> >>, <<"U+10CCF", <<"U+10C8F">> >>,
      <<"U+10CD0", <<"U+10C90">> >>, <<"U+10CD1", <<"U+10C91">> >>,
      <<"U+10CD2", <<"U+10C92">> >>, <<"U+10CD3", <<"U+10C93">> >>,
      <<"U+10CD4", <<"U+10C94">> >>, <<"U+10CD5", <<"U+10C95">> >>,
      <<"U+10CD6", <<"U+10C96">> >>, <<"U+10CD7", <<"U+10C97">> >>,
      <<"U+10CD8", <<"U+10C98">> >>, <<"U+10CD9", <<"U+10C99">> >>,
      <<"U+10CDA", <<"U+10C9A">> >>, <<"U+10CDB", <<"U+10C9B">> >>,
      <<"U+10CDC", <<"U+10C9C">> >>, <<"U+10CDD", <<"U+10C9D">> >>,
      <<"U+10CDE", <<"U+10C9E">> >>, <<"U+10CDF", <<"U+10C9F">> >>,
      <<"U+10CE0", <<"U+10CA0">> >>, <<"U+10CE1", <<"U+10CA1">> >>,
      <<"U+10CE2", <<"U+10CA2">> >>, <<"U+10CE3", <<"U+10CA3">> >>,
      <<"U+10CE4", <<"U+10CA4">> >>, <<"U+10CE5", <<"U+10CA5">> >>,
      <<"U+10CE6", <<"U+10CA6">> >>, <<"U+10CE7", <<"U+10CA7">> >>,
      <<"U+10CE8", <<"U+10CA8">> >>, <<"U+10CE9", <<"U+10CA9">> >>,
      <<"U+10CEA", <<"U+10CAA">> >>, <<"U+10CEB", <<"U+10CAB">> >>,
      <<"U+10CEC", <<"U+10CAC">> >>, <<"U+10CED", <<"U+10CAD">> >>,
      <<"U+10CEE", <<"U+10CAE">> >>, <<"U+10CEF", <<"U+10CAF">> >>,
      <<"U+10CF0", <<"U+10CB0">> >>, <<"U+10CF1", <<"U+10CB1">> >>,
      <<"U+10CF2", <<"U+10CB2">> >>, <<"U+118C0", <<"U+118A0">> >>,
      <<"U+118C1", <<"U+118A1">> >>, <<"U+118C2", <<"U+118A2">> >>,
      <<"U+118C3", <<"U+118A3">> >>, <<"U+118C4", <<"U+118A4">> >>,
      <<"U+118C5", <<"U+118A5">> >>, <<"U+118C6", <<"U+118A6">> >>,
      <<"U+118C7", <<"U+118A7">> >>, <<"U+118C8", <<"U+118A8">> >>,
      <<"U+118C9", <<"U+118A9">> >>, <<"U+118CA", <<"U+118AA">> >>,
      <<"U+118CB", <<"U+118AB">> >>, <<"U+118CC", <<"U+118AC">> >>,
      <<"U+118CD", <<"U+118AD">> >>, <<"U+118CE", <<"U+118AE">> >>,
      <<"U+118CF", <<"U+118AF">> >>, <<"U+118D0", <<"U+118B0">> >>,
      <<"U+118D1", <<"U+118B1">> >>, <<"U+118D2", <<"U+118B2">> >>,
      <<"U+118D3", <<"U+118B3">> >>, <<"U+118D4", <<"U+118B4">> >>,
      <<"U+118D5", <<"U+118B5">> >>, <<"U+118D6", <<"U+118B6">> >>,
      <<"U+118D7", <<"U+118B7">> >>, <<"U+118D8", <<"U+118B8">> >>,
      <<"U+118D9", <<"U+118B9">> >>, <<"U+118DA", <<"U+118BA">> >>,
      <<"U+118DB", <<"U+118BB">> >>, <<"U+118DC", <<"U+118BC">> >>,
      <<"U+118DD", <<"U+118BD">> >>, <<"U+118DE", <<"U+118BE">> >>,
      <<"U+118DF", <<"U+118BF">> >>, <<"U+16E60", <<"U+16E40">> >>,
      <<"U+16E61", <<"U+16E41">> >>, <<"U+16E62", <<"U+16E42">> >>,
      <<"U+16E63", <<"U+16E43">> >>, <<"U+16E64", <<"U+16E44">> >>,
      <<"U+16E65", <<"U+16E45">> >>, <<"U+16E66", <<"U+16E46">> >>,
      <<"U+16E67", <<"U+16E47">> >>, <<"U+16E68", <<"U+16E48">> >>,
      <<"U+16E69", <<"U+16E49">> >>, <<"U+16E6A", <<"U+16E4A">> >>,
      <<"U+16E6B", <<"U+16E4B">> >>, <<"U+16E6C", <<"U+16E4C">> >>,
      <<"U+16E6D", <<"U+16E4D">> >>, <<"U+16E6E", <<"U+16E4E">> >>,
      <<"U+16E6F", <<"U+16E4F">> >>, <<"U+16E70", <<"U+16E50">> >>,
      <<"U+16E71", <<"U+16E51">> >>, <<"U+16E72", <<"U+16E52">> >>,
      <<"U+16E73", <<"U+16E53">> >>, <<"U+16E74", <<"U+16E54">> >>,
      <<"U+16E75", <<"U+16E55">> >>, <<"U+16E76", <<"U+16E56">> >>,
      <<"U+16E77", <<"U+16E57">> >>, <<"U+16E78", <<"U+16E58">> >>,
      <<"U+16E79", <<"U+16E59">> >>, <<"U+16E7A", <<"U+16E5A">> >>,
      <<"U+16E7B", <<"U+16E5B">> >>, <<"U+16E7C", <<"U+16E5C">> >>,
      <<"U+16E7D", <<"U+16E5D">> >>, <<"U+16E7E", <<"U+16E5E">> >>,
      <<"U+16E7F", <<"U+16E5F">> >>, <<"U+1E922", <<"U+1E900">> >>,
      <<"U+1E923", <<"U+1E901">> >>, <<"U+1E924", <<"U+1E902">> >>,
      <<"U+1E925", <<"U+1E903">> >>, <<"U+1E926", <<"U+1E904">> >>,
      <<"U+1E927", <<"U+1E905">> >>, <<"U+1E928", <<"U+1E906">> >>,
      <<"U+1E929", <<"U+1E907">> >>, <<"U+1E92A", <<"U+1E908">> >>,
      <<"U+1E92B", <<"U+1E909">> >>, <<"U+1E92C", <<"U+1E90A">> >>,
      <<"U+1E92D", <<"U+1E90B">> >>, <<"U+1E92E", <<"U+1E90C">> >>,
      <<"U+1E92F", <<"U+1E90D">> >>, <<"U+1E930", <<"U+1E90E">> >>,
      <<"U+1E931", <<"U+1E90F">> >>, <<"U+1E932", <<"U+1E910">> >>,
      <<"U+1E933", <<"U+1E911">> >>, <<"U+1E934", <<"U+1E912">> >>,
      <<"U+1E935", <<"U+1E913">> >>, <<"U+1E936", <<"U+1E914">> >>,
      <<"U+1E937", <<"U+1E915">> >>, <<"U+1E938", <<"U+1E916">> >>,
      <<"U+1E939", <<"U+1E917">> >>, <<"U+1E93A", <<"U+1E918">> >>,
      <<"U+1E93B", <<"U+1E919">> >>, <<"U+1E93C", <<"U+1E91A">> >>,
      <<"U+1E93D", <<"U+1E91B">> >>, <<"U+1E93E", <<"U+1E91C">> >>,
      <<"U+1E93F", <<"U+1E91D">> >>, <<"U+1E940", <<"U+1E91E">> >>,
      <<"U+1E941", <<"U+1E91F">> >>, <<"U+1E942", <<"U+1E920">> >>,
      <<"U+1E943", <<"U+1E921">> >>
    >>

\* UpperPairs as a function of the character
UnicodeUpper ==
    [c \in {UpperPairs[i][1] : i \in DOMAIN UpperPairs} |->
        UpperPairs[CHOOSE i \in DOMAIN UpperPairs : UpperPairs[i][1] = c][2]]

\* str.upper() on one character, which gives one character or more: an ASCII
\* lower-case letter becomes its capital, a character of UpperPairs what
\* Unicode's upper-casing makes of it, any other character (capitals,
\* digits, punctuation, characters without an upper case) stays.
UpperChar(c) ==
    IF \E i \in DOMAIN LowerLetters : LowerLetters[i] = c
    THEN <<UpperLetters[CHOOSE i \in DOMAIN LowerLetters : LowerLetters[i] = c]>>
    ELSE IF c \in DOMAIN UnicodeUpper
    THEN UnicodeUpper[c]
    ELSE <<c>>

\* str.upper(): the upper-cased characters, one after the other
RECURSIVE Upper(_)
Upper(s) == IF s = <<>> THEN <<>> ELSE UpperChar(Head(s)) \o Upper(Tail(s))

\* x in list
InList(x, list) == \E i \in DOMAIN list : list[i] = x

\* str.split(sep): the pieces of s between the occurrences of sep
RECURSIVE Split(_, _)
Split(s, sep) ==
    IF \E i \in DOMAIN s : s[i] = sep
    THEN LET i == CHOOSE k \in DOMAIN s :
                      s[k] = sep /\ \A j \in 1..(k - 1) : s[j] # sep
         IN <<SubSeq(s, 1, i - 1)>> \o Split(SubSeq(s, i + 1, Len(s)), sep)
    ELSE <<s>>

\* list[-1]
Last(list) == list[Len(list)]

supported_from_langs ==
    << <<"B", "G">>, <<"C", "S">>, <<"D", "A">>,
       <<"D", "E">>, <<"E", "L">>, <<"E", "N">>,
       <<"E", "S">>, <<"E", "T">>, <<"F", "I">>,
       <<"F", "R">>, <<"H", "U">>, <<"I", "D">>,
       <<"I", "T">>, <<"J", "A">>, <<"L", "T">>,
       <<"L", "V">>, <<"N", "L">>, <<"P", "L">>,
       <<"P", "T">>, <<"R", "O">>, <<"R", "U">>,
       <<"S", "K">>, <<"S", "L">>, <<"S", "V">>,
       <<"T", "R">>, <<"Z", "H">> >>

supported_to_langs ==
    << <<"B", "G">>, <<"C", "S">>, <<"D", "A">>,
       <<"D", "E">>, <<"E", "L">>, <<"E", "N", "-", "G", "B">>,
       <<"E", "N", "-", "U", "S">>, <<"E", "S">>, <<"E", "T">>,
       <<"F", "I">>, <<"F", "R">>, <<"H", "U">>,
       <<"I", "D">>, <<"I", "T">>, <<"J", "A">>,
       <<"L", "T">>, <<"L", "V">>, <<"N", "L">>,
       <<"P", "L">>, <<"P", "T", "-", "P", "T">>, <<"P", "T", "-", "B", "R">>,
       <<"R", "O">>, <<"R", "U">>, <<"S", "K">>,
       <<"S", "L">>, <<"S", "V">>, <<"T", "R">>,
       <<"Z", "H">> >>

(***************************************************************************)
(* JSON objects.                                                           *)
(***************************************************************************)
\* obj.pop(key, None)
Pop(o, key) == [k \in DOMAIN o \ {key} |-> o[k]]

\* obj[key] = value
SetKey(o, key, value) ==
    [k \in DOMAIN o \cup {key} |-> IF k = key THEN value ELSE o[k]]

\* Faulty variant: last_edited_by is not in the list.
keys_to_remove_but_one ==
    <<"id", "created_time", "last_edited_time", "created_by">>

keys_to_remove ==
    <<"id", "created_time", "last_edited_time", "created_by", "last_edited_by">>

\* for key in keys_to_remove: obj.pop(key, None)
RECURSIVE PopAll(_, _)
PopAll(o, keys) ==
    IF keys = <<>> THEN o ELSE PopAll(Pop(o, Head(keys)), Tail(keys))

remove_unnecessary_properties(o) == PopAll(o, keys_to_remove)

(***************************************************************************)
(* The Notion workspace the run talks to.                                  *)
(***************************************************************************)
T(i) == <<"T", ToString(i)>>

\* a rich-text run of type "text"
TextRun(t) == [type |-> "text", text |-> [content |-> t], plain_text |-> t]

BlockTypes == <<"paragraph", "toggle", "column_list", "unsupported">>

\* The i-th child of the source page: its type follows from its place and
\* from the variant, so that every type occurs at every place.
ServerBlock(v, i) ==
    LET type == BlockTypes[((i + v) % Len(BlockTypes)) + 1]
        head == [id |-> <<"b", ToString(i)>>,
                 created_time |-> "2023-01-01", last_edited_time |-> "2023-01-02",
                 created_by |-> [id |-> "u1"], last_edited_by |-> [id |-> "u2"],
                 object |-> "block", type |-> type,
                 has_children |-> type \in {"toggle", "column_list"}]
    IN CASE type = "paragraph" ->
              head @@ [paragraph |-> [rich_text |-> <<TextRun(T(i))>>]]
         [] type = "toggle" ->
              head @@ [toggle |-> [rich_text |-> <<TextRun(T(i))>>]]
         [] type = "column_list" ->
              head @@ [column_list |-> [children |-> <<T(i)>>]]
         [] OTHER ->
              head @@ [unsupported |-> [note |-> T(i)]]

\* The cursor the server hands out for "continue after the first pos children".
Token(pos) == "cur" \o ToString(pos)

MaxChildren == MaxPages * MaxPageLen

\* How many blocks a list response may hold: none, one, a full response, or
\* one less.
PageLens == {0, 1, MaxPageLen - 1, MaxPageLen}

PosOf(c) == IF c = None THEN 0 ELSE CHOOSE p \in 0..MaxChildren : Token(p) = c

\* The response to blocks.children.list(start_cursor = c): the next n children,
\* and whether more follow.
ListResponse(v, c, n, more) ==
    [results |-> [j \in 1..n |-> ServerBlock(v, PosOf(c) + j)],
     has_more |-> more,
     next_cursor |-> IF more THEN Token(PosOf(c) + n) ELSE None]

ListCalls == SelectSeq(calls, LAMBDA c : c.op = "list")

Hello == <<"H", "e", "l", "l", "o">>

\* A page object as pages.retrieve returns it, with the title runs given.
PageWithTitle(id, runs) ==
    [object |-> "page", id |-> id, url |-> <<"u", ":">> \o id,
     created_time |-> "2023-01-01", last_edited_time |-> "2023-01-02",
     created_by |-> [id |-> "u1"], last_edited_by |-> [id |-> "u2"],
     parent |-> [workspace |-> TRUE],
     properties |-> [title |-> [id |-> "title", title |-> runs]]]

\* A page of a database whose title property has another name.
PageWithoutTitle(id) ==
    [PageWithTitle(id, <<>>) EXCEPT !.properties = [Name |-> [id |-> "title"]]]

NewPageId == <<"n", "e", "w">>

\* The response to pages.create
CreateResponse == [id |-> NewPageId, url |-> <<"u", ":">> \o NewPageId]

(***************************************************************************)
(* main: the language checks and the page retrieval.                       *)
(***************************************************************************)
Call(op, req, ok, resp) == [op |-> op, req |-> req, ok |-> ok, resp |-> resp]

\* Faulty variant: the exception is swallowed and the code carries on.
Raise_swallowed == UNCHANGED <<pc, exit_status>>

\* An exception nobody catches: in main the process ends with status 1,
\* in a function called on its own it reaches the caller.
Raise ==
    /\ pc' = IF ret = "main" THEN "exit" ELSE "raised"
    /\ exit_status' = IF ret = "main" THEN 1 ELSE exit_status

\* Faulty variant: --from checked against the list of destination languages.
from_lang_checked_against_to_list(lang) == InList(Upper(lang), supported_to_langs)

from_lang_supported(lang) == InList(Upper(lang), supported_from_langs)

to_lang_supported(lang) == InList(Upper(lang), supported_to_langs)

CheckFrom ==
    /\ pc = "check_from"
    /\ IF from_lang_supported(from_lang)
       THEN pc' = "check_to" /\ exit_status' = exit_status
       ELSE pc' = "exit" /\ exit_status' = 1
    /\ UNCHANGED <<ret, calls, from_lang, to_lang, url, original_page, page0,
                   new_page, begin_index, end_index, buildVars, unitVars>>

CheckTo ==
    /\ pc = "check_to"
    /\ IF to_lang_supported(to_lang)
       THEN pc' = "retrieve" /\ exit_status' = exit_status
       ELSE pc' = "exit" /\ exit_status' = 1
    /\ UNCHANGED <<ret, calls, from_lang, to_lang, url, original_page, page0,
                   new_page, begin_index, end_index, buildVars, unitVars>>

\* Faulty variant: the first piece of the last path segment, not the last.
content_id_first_piece(u) == Head(Split(Last(Split(u, "/")), "-"))

\* url.split("/")[-1].split("-")[-1]
content_id(u) == Last(Split(Last(Split(u, "/")), "-"))

MainPages(id) == {PageWithTitle(id, <<TextRun(Hello)>>), PageWithoutTitle(id)}

RetrievePage ==
    /\ pc = "retrieve"
    /\ \E ok \in BOOLEAN, page \in MainPages(content_id(url)) :
         IF ok
         THEN /\ calls' = Append(calls, Call("retrieve", [page_id |-> content_id(url)],
                                             TRUE, page))
              /\ original_page' = page
              /\ page0' = page
              /\ pc' = "build"
              /\ exit_status' = exit_status
              /\ block_id' = page.id
              /\ nested_depth' = 0
              /\ cursor' = None
              /\ has_more' = TRUE
              /\ translated_blocks' = <<>>
         ELSE /\ calls' = Append(calls, Call("retrieve", [page_id |-> content_id(url)],
                                             FALSE, None))
              /\ pc' = "exit"
              /\ exit_status' = 1
              /\ UNCHANGED <<original_page, page0, block_id, nested_depth, cursor,
                             has_more, translated_blocks>>
    /\ UNCHANGED <<ret, from_lang, to_lang, url, new_page, begin_index, end_index,
                   fetched, variant, unitVars>>

(***************************************************************************)
(* build_translated_blocks                                                 *)
(***************************************************************************)
\* Faulty variant: blocks of type "unsupported" are not skipped.
process_block_keeps_unsupported(b, d) ==
    LET b1 == IF d >= 2 THEN SetKey(b, "has_children", FALSE) ELSE b
    IN IF d = 1 /\ b1.type = "column_list"
       THEN [object |-> [b1 EXCEPT !.column_list = SetKey(@, "children", <<>>)],
             appended |-> FALSE]
       ELSE [object |-> remove_unnecessary_properties(b1), appended |-> TRUE]

\* The body of "for result in blocks['results']" for one result b at nesting
\* depth d: the object as the body leaves it (b is the result itself, not a
\* copy), and whether it is appended to translated_blocks.
process_block(b, d) ==
    LET b1 == IF d >= 2 THEN SetKey(b, "has_children", FALSE) ELSE b
    IN IF d = 1 /\ b1.type = "column_list"
       THEN [object |-> [b1 EXCEPT !.column_list = SetKey(@, "children", <<>>)],
             appended |-> FALSE]
       ELSE IF b1.type = "unsupported"
       THEN [object |-> b1, appended |-> FALSE]
       ELSE [object |-> remove_unnecessary_properties(b1), appended |-> TRUE]

\* The whole for loop over one response's results.
process_results(results, d) == [i \in DOMAIN results |-> process_block(results[i], d)]

Appended(processed) ==
    LET kept == SelectSeq(processed, LAMBDA r : r.appended)
    IN [i \in DOMAIN kept |-> kept[i].object]

Objects(processed) == [i \in DOMAIN processed |-> processed[i].object]

\* Faulty variant: the cursor is never moved on.
next_start_cursor_stale(c, blocks) == c

\* "if blocks['has_more']: cursor = blocks['next_cursor']"
next_start_cursor(c, blocks) == IF blocks.has_more THEN blocks.next_cursor ELSE c

\* One turn of "while has_more": one blocks.children.list call and the
\* handling of its response.
ListChildren ==
    /\ pc = "build"
    /\ has_more
    /\ \E ok \in BOOLEAN, n \in PageLens, more \in BOOLEAN :
         LET request == [block_id |-> block_id, start_cursor |-> cursor,
                         page_size |-> 100]
             blocks == ListResponse(variant, cursor, n,
                                    more /\ Len(ListCalls) + 1 < MaxPages)
             processed == process_results(blocks.results, nested_depth)
         IN IF ok
            THEN /\ calls' = Append(calls, Call("list", request, TRUE, blocks))
                 /\ translated_blocks' = translated_blocks \o Appended(processed)
                 /\ fetched' = fetched \o Objects(processed)
                 /\ cursor' = next_start_cursor(cursor, blocks)
                 /\ has_more' = blocks.has_more
                 /\ UNCHANGED <<pc, exit_status>>
            ELSE /\ n = 0 /\ ~more    \* a failed call has no response to choose
                 /\ calls' = Append(calls, Call("list", request, FALSE, None))
                 /\ Raise
                 /\ UNCHANGED <<translated_blocks, fetched, cursor, has_more>>
    /\ UNCHANGED <<ret, from_lang, to_lang, url, original_page, page0, new_page,
                   begin_index, end_index, block_id, nested_depth, variant, unitVars>>

\* "return translated_blocks"
BuildReturn ==
    /\ pc = "build"
    /\ ~has_more
    /\ pc' = IF ret = "main" THEN "create" ELSE "returned"
    /\ UNCHANGED <<ret, calls, mainVars, buildVars, unitVars>>

(***************************************************************************)
(* create_new_page_for_translation                                         *)
(***************************************************************************)
\* f" ({to_lang})"
suffix(lang) == <<" ", "(">> \o lang \o <<")">>

\* Faulty variant: new_page = original_page, one object under two names.
new_page_same_object == "original_page"

\* new_page = json.loads(json.dumps(original_page)): new_page names an object
\* of its own, equal to original_page.
new_page_object == "new_page"

\* Whether lines 187-195 run through: the page has a title property whose
\* first run has a text object with a content, and a plain_text.
title_readable(page) ==
    /\ "title" \in DOMAIN page.properties
    /\ page.properties.title.title # <<>>
    /\ "text" \in DOMAIN page.properties.title.title[1]
    /\ "content" \in DOMAIN page.properties.title.title[1].text
    /\ "plain_text" \in DOMAIN page.properties.title.title[1]

\* The two objects the function holds when it calls pages.create.
create_heap(page, lang) ==
    LET n  == new_page_object
        h0 == [o \in {"original_page", n} |-> page]
        h1 == [h0 EXCEPT ![n] = SetKey(@, "parent", [page_id |-> h0.original_page.id])]
        h2 == [h1 EXCEPT ![n].properties.title.title[1].text.content =
                   h1.original_page.properties.title.title[1].text.content \o suffix(lang)]
        h3 == [h2 EXCEPT ![n].properties.title.title[1].plain_text =
                   h2.original_page.properties.title.title[1].plain_text \o suffix(lang)]
    IN [h3 EXCEPT ![n] = remove_unnecessary_properties(@)]

CreatePage ==
    /\ pc = "create"
    /\ IF ~title_readable(original_page)
       THEN /\ Raise
            /\ UNCHANGED <<calls, original_page, new_page, end_index>>
       ELSE LET heap == create_heap(original_page, to_lang)
            IN \E ok \in BOOLEAN :
                 /\ original_page' = heap.original_page
                 /\ IF ok
                    THEN /\ calls' = Append(calls, Call("create", heap[new_page_object],
                                                        TRUE, CreateResponse))
                         /\ new_page' = CreateResponse
                         /\ end_index' = 0
                         /\ pc' = IF ret = "main" THEN "append" ELSE "returned"
                         /\ exit_status' = exit_status
                    ELSE /\ calls' = Append(calls, Call("create", heap[new_page_object],
                                                        FALSE, None))
                         /\ Raise
                         /\ UNCHANGED <<new_page, end_index>>
    /\ UNCHANGED <<ret, from_lang, to_lang, url, page0, begin_index, buildVars, unitVars>>

(***************************************************************************)
(* main: the upload loop.                                                  *)
(***************************************************************************)
page_size == 10

Min(a, b) == IF a < b THEN a ELSE b

next_end_index(begin, len) == Min(begin + page_size, len)

\* Faulty variant: the slice starts one block late.
Slice_one_late(list, begin, end) == SubSeq(list, begin + 2, end)

\* translated_blocks[begin_index:end_index]
Slice(list, begin, end) == SubSeq(list, begin + 1, end)

\* One turn of "while end_index < len(translated_blocks)".
AppendBatch ==
    /\ pc = "append"
    /\ end_index < Len(translated_blocks)
    /\ begin_index' = end_index
    /\ end_index' = next_end_index(begin_index', Len(translated_blocks))
    /\ \E ok \in BOOLEAN :
         LET request == [block_id |-> new_page.id,
                         children |-> Slice(translated_blocks, begin_index', end_index')]
         IN /\ calls' = Append(calls, Call("append", request, ok, None))
            /\ IF ok THEN UNCHANGED <<pc, exit_status>> ELSE Raise
    /\ UNCHANGED <<ret, from_lang, to_lang, url, original_page, page0, new_page,
                   buildVars, unitVars>>

\* The loop is over: the closing messages, open_url, and the normal exit.
Finish ==
    /\ pc = "append"
    /\ ~(end_index < Len(translated_blocks))
    /\ pc' = "done"
    /\ exit_status' = 0
    /\ UNCHANGED <<ret, calls, from_lang, to_lang, url, original_page, page0,
                   new_page, begin_index, end_index, buildVars, unitVars>>

(***************************************************************************)
(* translate_text, called on its own.                                      *)
(***************************************************************************)
\* each["plain_text"] = result, each being the run at place i: the dict
\* object is changed, so every place that holds it shows the change.
set_plain_text(array, runs, i, result) ==
    [j \in DOMAIN array |->
        IF runs[j] = runs[i] THEN SetKey(array[j], "plain_text", result) ELSE array[j]]

\* each["text"]["content"] = value: the text object is changed, so every run
\* whose "text" is that object shows the change.
set_text_content(array, texts, i, value) ==
    [j \in DOMAIN array |->
        IF texts[j] = texts[i]
        THEN [array[j] EXCEPT !.text = SetKey(@, "content", value)]
        ELSE array[j]]

\* Faulty variant: text.content is not brought in line with plain_text.
translate_run_plain_text_only(array, runs, texts, i, result) ==
    set_plain_text(array, runs, i, result)

\* The body of "if 'plain_text' in each" for the run at place i, given the
\* translator's result: the array as it reads afterwards.
translate_run(array, runs, texts, i, result) ==
    LET a1 == set_plain_text(array, runs, i, result)
    IN IF "text" \in DOMAIN a1[i]
       THEN set_text_content(a1, texts, i, a1[i].plain_text)
       ELSE a1

\* What the translation service may answer.
Translations == {<<"X">>, <<"Y", "Z">>}

\* One turn of "for each in rich_text_array".
TranslateRun ==
    /\ pc = "translate"
    /\ each_index < Len(rich_text_array)
    /\ LET i == each_index + 1
           each == rich_text_array[i]
       IN IF "plain_text" \in DOMAIN each
          THEN \E ok \in BOOLEAN, result \in Translations :
                 LET request == [text |-> each.plain_text, from_lang |-> from_lang,
                                 to_lang |-> to_lang]
                 IN IF ok
                    THEN /\ calls' = Append(calls, Call("translate", request, TRUE, result))
                         /\ rich_text_array' =
                                translate_run(rich_text_array, run_id, text_id, i, result)
                         /\ each_index' = i
                         /\ UNCHANGED <<pc, exit_status>>
                    ELSE /\ result = <<"X">>    \* a failed call has no result to choose
                         /\ calls' = Append(calls, Call("translate", request, FALSE, None))
                         /\ Raise
                         /\ UNCHANGED <<rich_text_array, each_index>>
          ELSE /\ each_index' = i
               /\ UNCHANGED <<pc, exit_status, calls, rich_text_array>>
    /\ UNCHANGED <<ret, from_lang, to_lang, url, original_page, page0, new_page,
                   begin_index, end_index, buildVars, run_id, text_id,
                   rich_text_array0, obj, obj0>>

\* The for loop is over.
TranslateReturn ==
    /\ pc = "translate"
    /\ each_index = Len(rich_text_array)
    /\ pc' = "returned"
    /\ UNCHANGED <<ret, calls, mainVars, buildVars, unitVars>>

(***************************************************************************)
(* remove_unnecessary_properties, called on its own.                       *)
(***************************************************************************)
RemoveProperties ==
    /\ pc = "remove"
    /\ obj' = remove_unnecessary_properties(obj)
    /\ pc' = "returned"
    /\ UNCHANGED <<ret, calls, mainVars, buildVars, rich_text_array, run_id,
                   text_id, rich_text_array0, each_index, obj0>>

(***************************************************************************)
(* Inputs.                                                                 *)
(***************************************************************************)
RECURSIVE SeqsUpTo(_, _)
SeqsUpTo(S, n) ==
    IF n = 0 THEN {<<>>}
    ELSE LET shorter == SeqsUpTo(S, n - 1)
         IN shorter \cup {Append(q, x) : q \in {r \in shorter : Len(r) = n - 1}, x \in S}

\* --from and --to as typed
LangInputs ==
    {<<"f", "r">>, <<"E", "N">>, <<"E", "n", "-", "u", "s">>, <<"U+FB01">>,
     <<"U+0131", "t">>, <<"U+00DF">>, <<"U+017F", "k">>, <<>>}

ExampleUrl ==
    <<"h", "t", "t", "p", "s", ":", "/", "/", "w", "w", "w", ".", "n", "o", "t",
      "i", "o", "n", ".", "s", "o", "/", "M", "y", "-", "P", "a", "g", "e", "-",
      "a", "b", "c", "1", "2", "3">>

MainUrls == {ExampleUrl}

UrlChars == {"a", "b", "-", "/"}

GeneratedUrls == SeqsUpTo(UrlChars, MaxUrlLen) \cup {ExampleUrl}

World == <<"W", "o", "r", "l", "d">>

RunInputs ==
    {TextRun(Hello), TextRun(World),
     [type |-> "text", text |-> [content |-> Hello], plain_text |-> World],
     [type |-> "text", text |-> [content |-> Hello, link |-> None], plain_text |-> Hello],
     [type |-> "mention", plain_text |-> Hello],
     [type |-> "text", text |-> [content |-> Hello]],
     [type |-> "equation"]}

RichTextInputs == SeqsUpTo(RunInputs, MaxRuns)

\* The ways the places of the array a can hold dict objects: each place
\* holds an object of its own (named by the place) or the object of an
\* earlier place, which then has the same value.
RunIdentities(a) ==
    {r \in [DOMAIN a -> 1..Len(a)] :
        \A i \in DOMAIN a : r[i] <= i /\ r[r[i]] = r[i] /\ a[r[i]] = a[i]}

\* The ways the runs of a can hold "text" dict objects, given which places
\* hold the same run: one run object has one text object; two run objects
\* have each their own, or share one, which then has one value. 0 stands
\* for no text object.
TextIdentities(a, r) ==
    {t \in [DOMAIN a -> 0..Len(a)] :
        \A i \in DOMAIN a :
            IF "text" \in DOMAIN a[i]
            THEN /\ t[i] \in 1..i
                 /\ t[t[i]] = t[i]
                 /\ "text" \in DOMAIN a[t[i]]
                 /\ a[t[i]].text = a[i].text
                 /\ t[i] = t[r[i]]
                 /\ (t[i] = i) => (r[i] = i)
            ELSE t[i] = 0}

ManagedKeySets == SUBSET {keys_to_remove[i] : i \in DOMAIN keys_to_remove}

RECURSIVE Without(_, _)
Without(o, keys) ==
    IF keys = {} THEN o
    ELSE LET k == CHOOSE x \in keys : TRUE IN Without(Pop(o, k), keys \ {k})

ObjectInputs ==
    {Without(o, ks) :
        o \in {ServerBlock(0, 1), ServerBlock(0, 2), ServerBlock(0, 3),
               PageWithTitle(<<"p">>, <<TextRun(Hello)>>)},
        ks \in ManagedKeySets}

TitleInputs ==
    {<<TextRun(Hello)>>, <<TextRun(Hello), TextRun(World)>>,
     <<[type |-> "text", text |-> [content |-> Hello], plain_text |-> World]>>,
     <<[type |-> "mention", plain_text |-> Hello]>>,
     <<[type |-> "text", text |-> [content |-> Hello]]>>,
     <<[type |-> "text", text |-> [link |-> None], plain_text |-> Hello]>>,
     <<>>}

PageInputs ==
    {PageWithTitle(id, runs) : id \in {<<"p">>, <<"q", "1">>}, runs \in TitleInputs}
        \cup {PageWithoutTitle(<<"p">>)}

\* to_lang of a direct call: any string
LangStrings == SeqsUpTo({"F", "r", "-"}, 2) \cup {<<"F", "R">>}

(***************************************************************************)
(* Specifications.                                                         *)
(***************************************************************************)
Idle ==
    /\ exit_status = -1
    /\ calls = <<>>
    /\ original_page = None
    /\ page0 = None
    /\ block_id = None
    /\ nested_depth = 0
    /\ cursor = None
    /\ has_more = FALSE
    /\ translated_blocks = <<>>
    /\ fetched = <<>>
    /\ variant = 0
    /\ new_page = None
    /\ begin_index = 0
    /\ end_index = 0
    /\ rich_text_array = <<>>
    /\ run_id = <<>>
    /\ text_id = <<>>
    /\ rich_text_array0 = <<>>
    /\ each_index = 0
    /\ obj = None
    /\ obj0 = None

\* A run of the command.
Init ==
    /\ pc = "check_from"
    /\ ret = "main"
    /\ from_lang \in LangInputs
    /\ to_lang \in LangInputs
    /\ url \in MainUrls
    /\ Idle

Next ==
    \/ CheckFrom
    \/ CheckTo
    \/ RetrievePage
    \/ ListChildren
    \/ BuildReturn
    \/ CreatePage
    \/ AppendBatch
    \/ Finish

Spec == Init /\ [][Next]_vars

\* The part of a run up to the page retrieval, for any URL.
InitUrl ==
    /\ pc = "check_from"
    /\ ret = "main"
    /\ from_lang = <<"E", "N">>
    /\ to_lang = <<"f", "r">>
    /\ url \in GeneratedUrls
    /\ Idle

NextUrl ==
    \/ CheckFrom
    \/ CheckTo
    \/ RetrievePage

SpecUrl == InitUrl /\ [][NextUrl]_vars

\* build_translated_blocks(block_id, nested_depth, debug) called on its own.
InitBuild ==
    /\ pc = "build"
    /\ ret = "caller"
    /\ from_lang = <<"E", "N">>
    /\ to_lang = <<"f", "r">>
    /\ url = <<>>
    /\ exit_status = -1
    /\ calls = <<>>
    /\ original_page = None
    /\ page0 = None
    /\ block_id = <<"p">>
    /\ nested_depth \in 0..MaxDepth
    /\ cursor = None
    /\ has_more = TRUE
    /\ translated_blocks = <<>>
    /\ fetched = <<>>
    /\ variant \in 0..(Len(BlockTypes) - 1)
    /\ new_page = None
    /\ begin_index = 0
    /\ end_index = 0
    /\ rich_text_array = <<>>
    /\ run_id = <<>>
    /\ text_id = <<>>
    /\ rich_text_array0 = <<>>
    /\ each_index = 0
    /\ obj = None
    /\ obj0 = None

NextBuild ==
    \/ ListChildren
    \/ BuildReturn

SpecBuild == InitBuild /\ [][NextBuild]_vars

\* create_new_page_for_translation(original_page, to_lang, debug) called on
\* its own.
InitCreate ==
    /\ pc = "create"
    /\ ret = "caller"
    /\ from_lang = <<"E", "N">>
    /\ to_lang \in LangStrings
    /\ url = <<>>
    /\ exit_status = -1
    /\ calls = <<>>
    /\ original_page \in PageInputs
    /\ page0 = original_page
    /\ block_id = None
    /\ nested_depth = 0
    /\ cursor = None
    /\ has_more = FALSE
    /\ translated_blocks = <<>>
    /\ fetched = <<>>
    /\ variant = 0
    /\ new_page = None
    /\ begin_index = 0
    /\ end_index = 0
    /\ rich_text_array = <<>>
    /\ run_id = <<>>
    /\ text_id = <<>>
    /\ rich_text_array0 = <<>>
    /\ each_index = 0
    /\ obj = None
    /\ obj0 = None

NextCreate == CreatePage

SpecCreate == InitCreate /\ [][NextCreate]_vars

\* translate_text(rich_text_array, from_lang, to_lang) called on its own.
InitTranslate ==
    /\ pc = "translate"
    /\ ret = "caller"
    /\ from_lang = <<"E", "N">>
    /\ to_lang = <<"F", "R">>
    /\ url = <<>>
    /\ exit_status = -1
    /\ calls = <<>>
    /\ original_page = None
    /\ page0 = None
    /\ block_id = None
    /\ nested_depth = 0
    /\ cursor = None
    /\ has_more = FALSE
    /\ translated_blocks = <<>>
    /\ fetched = <<>>
    /\ variant = 0
    /\ new_page = None
    /\ begin_index = 0
    /\ end_index = 0
    /\ rich_text_array \in RichTextInputs
    /\ run_id \in RunIdentities(rich_text_array)
    /\ text_id \in TextIdentities(rich_text_array, run_id)
    /\ rich_text_array0 = rich_text_array
    /\ each_index = 0
    /\ obj = None
    /\ obj0 = None

NextTranslate ==
    \/ TranslateRun
    \/ TranslateReturn

SpecTranslate == InitTranslate /\ [][NextTranslate]_vars

\* remove_unnecessary_properties(obj) called on its own.
InitRemove ==
    /\ pc = "remove"
    /\ ret = "caller"
    /\ from_lang = <<"E", "N">>
    /\ to_lang = <<"f", "r">>
    /\ url = <<>>
    /\ exit_status = -1
    /\ calls = <<>>
    /\ original_page = None
    /\ page0 = None
    /\ block_id = None
    /\ nested_depth = 0
    /\ cursor = None
    /\ has_more = FALSE
    /\ translated_blocks = <<>>
    /\ fetched = <<>>
    /\ variant = 0
    /\ new_page = None
    /\ begin_index = 0
    /\ end_index = 0
    /\ rich_text_array = <<>>
    /\ run_id = <<>>
    /\ text_id = <<>>
    /\ rich_text_array0 = <<>>
    /\ each_index = 0
    /\ obj \in ObjectInputs
    /\ obj0 = obj

\* A direct call of build_translated_blocks that keeps running: the loop is
\* sequential code, so a turn that can be taken is taken.
SpecBuildLive == InitBuild /\ [][NextBuild]_vars /\ WF_vars(NextBuild)

\* remove_unnecessary_properties both called on its own and as the pipeline
\* calls it.
InitSanitize == Init \/ InitRemove

NextSanitize ==
    \/ Next
    \/ RemoveProperties

SpecSanitize == InitSanitize /\ [][NextSanitize]_vars

(***************************************************************************)
(* What the properties below speak about.                                  *)
(***************************************************************************)
RECURSIVE Flatten(_)
Flatten(lists) == IF lists = <<>> THEN <<>> ELSE Head(lists) \o Flatten(Tail(lists))

CallsOf(op) == SelectSeq(calls, LAMBDA c : c.op = op)

OkCallsOf(op) == SelectSeq(calls, LAMBDA c : c.op = op /\ c.ok)

ManagedKeys ==
    {"id", "created_time", "last_edited_time", "created_by", "last_edited_by"}

\* Every block the server has returned so far, in order, as it returned it.
RawResults ==
    LET lists == OkCallsOf("list")
    IN Flatten([i \in DOMAIN lists |-> lists[i].resp.results])

Dropped(b, d) == b.type = "unsupported" \/ (d = 1 /\ b.type = "column_list")

Expected == SelectSeq(RawResults, LAMBDA b : ~Dropped(b, nested_depth))

\* out is src without the managed keys, and with has_children forced to
\* false from depth 2 on.
SameContent(out, src, d) ==
    /\ DOMAIN out = DOMAIN src \ ManagedKeys
    /\ \A k \in DOMAIN out :
         out[k] = IF k = "has_children" /\ d >= 2 THEN FALSE ELSE src[k]

\* Every block handed to a successful append call, in call order.
Uploaded ==
    LET appends == OkCallsOf("append")
    IN Flatten([i \in DOMAIN appends |-> appends[i].req.children])

RichText(b) ==
    IF b.type \in DOMAIN b /\ "rich_text" \in DOMAIN b[b.type]
    THEN b[b.type].rich_text
    ELSE <<>>

TextRuns(blocks) ==
    SelectSeq(Flatten([i \in DOMAIN blocks |-> RichText(blocks[i])]),
              LAMBDA r : "plain_text" \in DOMAIN r)

Ceil10(n) == (n + 9) \div 10

(***************************************************************************)
(* The claims.                                                             *)
(***************************************************************************)

\* C1: when a run of main has ended normally, the translation service was
\* called once for every rich-text run of every uploaded block, with the
\* run's source plain_text and the two language codes, and the uploaded run
\* carries the value the service returned as plain_text (and as text.content
\* when it has a text object).
C1_UploadedBlocksTranslated ==
    pc = "done" =>
        LET up  == TextRuns(Uploaded)
            src == TextRuns(Expected)
            tr  == OkCallsOf("translate")
        IN /\ Len(tr) = Len(up)
           /\ Len(src) = Len(up)
           /\ \A i \in DOMAIN up :
                /\ tr[i].req = [text |-> src[i].plain_text, from_lang |-> from_lang,
                                to_lang |-> to_lang]
                /\ up[i].plain_text = tr[i].resp
                /\ "text" \in DOMAIN up[i] => up[i].text.content = tr[i].resp

\* C2: when the upper-cased --from is not in supported_from_langs, or the
\* upper-cased --to is not in supported_to_langs, the run never issues an
\* external call and never gets past the language checks other than by
\* exiting with status 1.
C2_UnsupportedLanguageExits ==
    (\/ ~InList(Upper(from_lang), supported_from_langs)
     \/ ~InList(Upper(to_lang), supported_to_langs))
        => /\ calls = <<>>
           /\ pc \in {"check_from", "check_to", "exit"}
           /\ pc = "exit" => exit_status = 1
           /\ pc # "exit" => exit_status = -1

C2_Witness ==
    /\ pc = "exit"
    /\ exit_status = 1
    /\ calls = <<>>
    /\ from_lang = <<"E", "N">>
    /\ to_lang = <<"E", "N">>

\* C3: the upload loop sends the N translated blocks in ceil(N/10) append
\* calls, each to the new page, each holding between 1 and 10 blocks, and the
\* batches in call order make up the list again; while the loop runs, the
\* batches sent so far make up the first end_index blocks.
C3_BatchesPartitionBlocks ==
    pc \in {"append", "done"} =>
        LET appends == CallsOf("append")
            sent == Flatten([i \in DOMAIN appends |-> appends[i].req.children])
        IN /\ \A i \in DOMAIN appends :
                /\ appends[i].req.block_id = new_page.id
                /\ Len(appends[i].req.children) >= 1
                /\ Len(appends[i].req.children) <= 10
           /\ sent = SubSeq(translated_blocks, 1, end_index)
           /\ Len(appends) = Ceil10(end_index)
           /\ pc = "done" =>
                /\ end_index = Len(translated_blocks)
                /\ sent = translated_blocks
                /\ Len(appends) = Ceil10(Len(translated_blocks))

C3_Witness ==
    /\ pc = "done"
    /\ Len(translated_blocks) > 20
    /\ Len(CallsOf("append")) = 3
    /\ Len(CallsOf("append")[3].req.children) < 10

\* The array is a rich-text array as the specification defines it, runs
\* that are JSON objects: every place holds a run object of its own and
\* every run that has a text a text object of its own, as in the value of a
\* rich_text field decoded from a response.
RunsAreJsonObjects ==
    \A i \in DOMAIN rich_text_array0 : run_id[i] = i /\ text_id[i] \in {0, i}

\* C4: for every rich-text array (RunsAreJsonObjects), once translate_text
\* has handled the first each_index runs, each of them that had a plain_text
\* has as plain_text the value the service returned for its original
\* plain_text (one call per such run, in array order, with the two language
\* codes), its text.content, if it has a text object, is that value too, and
\* its other fields are as before; a run without plain_text is unchanged and
\* caused no call; the runs not yet handled are unchanged.
C4_EveryArrayCarriesServiceResult ==
    pc \in {"translate", "returned", "raised"} /\ RunsAreJsonObjects =>
        LET tr == OkCallsOf("translate")
            \* how many of the first i runs had a plain_text
            k(i) == Cardinality({j \in 1..i : "plain_text" \in DOMAIN rich_text_array0[j]})
        IN /\ Len(rich_text_array) = Len(rich_text_array0)
           /\ Len(tr) = k(each_index)
           /\ Len(CallsOf("translate")) = Len(tr) + (IF pc = "raised" THEN 1 ELSE 0)
           /\ pc = "returned" => each_index = Len(rich_text_array0)
           /\ \A i \in DOMAIN rich_text_array0 :
                LET before == rich_text_array0[i]
                    after == rich_text_array[i]
                IN IF i <= each_index /\ "plain_text" \in DOMAIN before
                   THEN /\ tr[k(i)].req = [text |-> before.plain_text,
                                           from_lang |-> from_lang, to_lang |-> to_lang]
                        /\ after.plain_text = tr[k(i)].resp
                        /\ DOMAIN after = DOMAIN before
                        /\ "text" \in DOMAIN before =>
                             /\ after.text.content = tr[k(i)].resp
                             /\ DOMAIN after.text = DOMAIN before.text
                        /\ \A f \in DOMAIN before \ {"plain_text", "text"} :
                             after[f] = before[f]
                   ELSE after = before

C4_Witness ==
    /\ pc = "returned"
    /\ RunsAreJsonObjects
    /\ Len(rich_text_array0) = 3
    /\ rich_text_array0[1] = [type |-> "text", text |-> [content |-> Hello],
                              plain_text |-> World]
    /\ rich_text_array0[2] = [type |-> "text", text |-> [content |-> Hello]]
    /\ rich_text_array0[3] = [type |-> "mention", plain_text |-> Hello]
    /\ rich_text_array[1] = [type |-> "text", text |-> [content |-> <<"X">>],
                             plain_text |-> <<"X">>]
    /\ rich_text_array[3] = [type |-> "mention", plain_text |-> <<"Y", "Z">>]
    /\ Len(calls) = 2

\* C5: an object that went through remove_unnecessary_properties has none of
\* id, created_time, last_edited_time, created_by, last_edited_by, whichever
\* of them it had, and all its other keys with their values; so has every
\* block of translated_blocks and every block handed to an append call.
C5_ManagedKeysRemoved ==
    /\ pc = "returned" =>
          /\ DOMAIN obj = DOMAIN obj0 \ ManagedKeys
          /\ \A k \in DOMAIN obj : obj[k] = obj0[k]
    /\ LET source == Expected
       IN /\ Len(translated_blocks) = Len(source)
          /\ \A i \in DOMAIN translated_blocks :
                /\ DOMAIN translated_blocks[i] \cap ManagedKeys = {}
                /\ DOMAIN translated_blocks[i] = DOMAIN source[i] \ ManagedKeys
                /\ \A k \in DOMAIN translated_blocks[i] :
                     translated_blocks[i][k] = source[i][k]
    /\ \A i \in DOMAIN calls :
          calls[i].op = "append" =>
              \A j \in DOMAIN calls[i].req.children :
                  DOMAIN calls[i].req.children[j] \cap ManagedKeys = {}

C5_Witness ==
    /\ pc = "returned"
    /\ DOMAIN obj0 \cap ManagedKeys = {"id", "created_by"}
    /\ "type" \in DOMAIN obj
    /\ "id" \notin DOMAIN obj

\* C6: create_new_page_for_translation, given a page whose first title run
\* has text.content c and plain_text p, submits one page-creation request
\* whose first title run has text.content c + " (L)" and plain_text
\* p + " (L)" for the to_lang L as passed, whose parent is the source page's
\* id and which has none of the five managed keys; the source page object is
\* as it was.
C6_TitleSuffixedCopy ==
    pc \in {"returned", "raised"} =>
        /\ original_page = page0
        /\ Len(calls) <= 1
        /\ \A i \in DOMAIN calls : calls[i].op = "create"
        /\ ( /\ "title" \in DOMAIN page0.properties
             /\ page0.properties.title.title # <<>>
             /\ {"text", "plain_text"} \subseteq DOMAIN page0.properties.title.title[1]
             /\ "content" \in DOMAIN page0.properties.title.title[1].text )
           => /\ Len(calls) = 1
              /\ LET request == calls[1].req
                     c == page0.properties.title.title[1].text.content
                     p == page0.properties.title.title[1].plain_text
                     tag == <<" ", "(">> \o to_lang \o <<")">>
                 IN /\ request.properties.title.title[1].text.content = c \o tag
                    /\ request.properties.title.title[1].plain_text = p \o tag
                    /\ request.parent = [page_id |-> page0.id]
                    /\ DOMAIN request \cap ManagedKeys = {}

C6_Witness ==
    /\ pc = "returned"
    /\ to_lang = <<"F", "R">>
    /\ page0.properties.title.title = <<TextRun(Hello)>>
    /\ Len(calls) = 1
    /\ calls[1].req.properties.title.title[1].text.content =
           <<"H", "e", "l", "l", "o", " ", "(", "F", "R", ")">>
    /\ calls[1].req.properties.title.title[1].plain_text =
           <<"H", "e", "l", "l", "o", " ", "(", "F", "R", ")">>
    /\ original_page.properties.title.title[1].plain_text = Hello

\* C7: in build_translated_blocks no block of type "unsupported" reaches the
\* output, at any depth; at depth 1 a fetched "column_list" block has its
\* column_list.children set to the empty list, and no list call is made for
\* it; every other fetched block is in the output exactly once, in fetch
\* order.
C7_TruncationPolicy ==
    /\ Len(fetched) = Len(RawResults)
    /\ \A i \in DOMAIN translated_blocks : translated_blocks[i].type # "unsupported"
    /\ \A i \in DOMAIN RawResults :
         (nested_depth = 1 /\ RawResults[i].type = "column_list") =>
             fetched[i].column_list.children = <<>>
    /\ \A i \in DOMAIN calls : calls[i].op = "list" /\ calls[i].req.block_id = block_id
    /\ Len(translated_blocks) = Len(Expected)
    /\ \A i \in DOMAIN translated_blocks :
         SameContent(translated_blocks[i], Expected[i], nested_depth)

C7_Witness ==
    /\ pc = "returned"
    /\ nested_depth = 1
    /\ \E i, j, k \in DOMAIN RawResults :
         /\ RawResults[i].type = "column_list"
         /\ RawResults[i].column_list.children # <<>>
         /\ fetched[i].column_list.children = <<>>
         /\ RawResults[j].type = "unsupported"
         /\ RawResults[k].type = "toggle"
    /\ Len(translated_blocks) > 2
    /\ Len(translated_blocks) < Len(RawResults)

\* C8: the page id handed to pages.retrieve is the end of the URL after its
\* last "/" or "-": it holds neither character, it ends the URL, and it is
\* the whole URL or follows a "/" or a "-"; for ".../My-Page-abc123" it is
\* "abc123".
C8_ContentIdIsLastPiece ==
    \A i \in DOMAIN calls :
        calls[i].op = "retrieve" =>
            LET id == calls[i].req.page_id
                n == Len(url) - Len(id)
            IN /\ n >= 0
               /\ id = SubSeq(url, n + 1, Len(url))
               /\ \A j \in DOMAIN id : id[j] \notin {"/", "-"}
               /\ n > 0 => url[n] \in {"/", "-"}
               /\ url = ExampleUrl => id = <<"a", "b", "c", "1", "2", "3">>

C8_Witness ==
    /\ url = ExampleUrl
    /\ Len(calls) = 1
    /\ calls[1].op = "retrieve"
    /\ calls[1].req.page_id = <<"a", "b", "c", "1", "2", "3">>

\* What C9 says of every state of build_translated_blocks.
PaginationFollowsCursor ==
    LET lists == CallsOf("list")
    IN /\ Len(lists) = Len(calls)
       /\ lists # <<>> => lists[1].req.start_cursor = None
       /\ \A i \in DOMAIN lists :
            /\ lists[i].req.block_id = block_id
            /\ i > 1 => /\ lists[i - 1].ok
                        /\ lists[i - 1].resp.has_more
                        /\ lists[i].req.start_cursor = lists[i - 1].resp.next_cursor
       /\ (pc = "build" /\ lists # <<>>) => has_more = Last(lists).resp.has_more
       /\ pc = "returned" =>
            /\ lists # <<>>
            /\ Last(lists).ok
            /\ ~Last(lists).resp.has_more
            /\ Len(translated_blocks) = Len(Expected)
            /\ \A i \in DOMAIN Expected :
                 SameContent(translated_blocks[i], Expected[i], nested_depth)
            /\ \A i \in DOMAIN RawResults :
                 RawResults[i] = ServerBlock(variant, i)

\* C9: build_translated_blocks lists the children page by page: the first
\* call has no cursor, each later one the next_cursor of the response before
\* it, and is made only after a response with has_more; once a response has
\* has_more false the function returns, with the responses' results in order
\* (less the dropped blocks); and the loop does end.
C9_CursorPagination ==
    /\ []PaginationFollowsCursor
    /\ <>(pc \in {"returned", "raised"})

C9_Witness ==
    /\ pc = "returned"
    /\ Len(calls) = 3
    /\ calls[2].req.start_cursor # None
    /\ calls[3].req.start_cursor # calls[2].req.start_cursor
    /\ Len(translated_blocks) > 10

Rank(op) ==
    CASE op = "retrieve" -> 1
      [] op = "list" -> 2
      [] op = "create" -> 3
      [] op = "append" -> 4
      [] OTHER -> 0

\* C10: the external calls of a run come in the order: the page retrieval,
\* the list calls, one page creation, the append calls; only the last call
\* made can be a failed one, and after it the process has ended with a
\* nonzero status; a failed retrieval or list call leaves no page created,
\* and the page is created only after a response with has_more false.
C10_LinearPipelineAborts ==
    /\ \A i \in DOMAIN calls :
         /\ Rank(calls[i].op) > 0
         /\ i = 1 => calls[i].op = "retrieve"
         /\ i > 1 => /\ calls[i - 1].ok
                     /\ Rank(calls[i - 1].op) <= Rank(calls[i].op)
                     /\ calls[i].op # "retrieve"
                     /\ calls[i].op = "create" =>
                          /\ calls[i - 1].op = "list"
                          /\ ~calls[i - 1].resp.has_more
                     /\ calls[i].op = "append" => calls[i - 1].op \in {"create", "append"}
    /\ (calls # <<>> /\ ~Last(calls).ok) =>
         /\ pc = "exit"
         /\ exit_status = 1
         /\ Last(calls).op \in {"retrieve", "list"} => CallsOf("create") = <<>>
    /\ pc = "done" => /\ exit_status = 0
                      /\ \A i \in DOMAIN calls : calls[i].ok
    /\ pc = "exit" => exit_status = 1
    /\ pc \notin {"exit", "done"} => exit_status = -1

C10_Witness ==
    /\ pc = "exit"
    /\ exit_status = 1
    /\ Len(CallsOf("append")) = 2
    /\ CallsOf("append")[1].ok
    /\ ~Last(calls).ok
    /\ Last(calls).op = "append"
    /\ Len(translated_blocks) > 20

====
